---- MODULE Spec2Model ----
(***************************************************************************)
(* A model of the lexical retrieval engine of Data/Scripts:                *)
(*   Basic_Text_Search.py          BasicRAGSystem   (build, save, load,    *)
(*                                                   search, query)        *)
(*   RAG_Reference_Implementation.py RAGReferenceSystem (reads the         *)
(*                                                   snapshot, retrieves)  *)
(*                                                                         *)
(* Text.  A corpus is a sequence of documents (the pieces between the      *)
(* 50-character "=" separators), a document a sequence of lines, a line a  *)
(* sequence of sentences (each closed by "."), a sentence a non-empty      *)
(* sequence of whitespace-separated tokens.  A token is a name standing    *)
(* for a word; Chars gives the number of characters of that word and       *)
(* clean_word the term it normalizes to.                                   *)
(*                                                                         *)
(* Numbers.  A weight tf * ln(N/df) is an exact rational over a fixed-     *)
(* point table of natural logarithms (LnTab, scaled by 10000); float       *)
(* rounding of sums is not modelled.                                       *)
(***************************************************************************)
EXTENDS Integers, Sequences, FiniteSets, TLC

VARIABLES
    text_file,       \* combined_text.txt: [exists, text]
    index_file,      \* text_index.json: [kind, data]
    pc,              \* position of the BasicRAGSystem process
    chunks,          \* self.chunks          [t: python type, v: value]
    word_index,      \* self.word_index      [t, v]
    tf_idf_scores,   \* self.tf_idf_scores   [t, v]
    origin,          \* how the working set was obtained: "none", "built", "loaded"
    found,           \* what load_or_create_index found on disk in this run
    save_error,      \* save_index printed its warning in this run
    last,            \* the last call answered and what it returned
    ref_pc,          \* position of the RAGReferenceSystem process
    ref_kb           \* its chunks, word_index, tf_idf_scores

vars == <<text_file, index_file, pc, chunks, word_index, tf_idf_scores,
          origin, found, save_error, last, ref_pc, ref_kb>>

-----------------------------------------------------------------------------
(* Bounds of the model                                                     *)

MaxDocs == 2         \* documents of a corpus, specification Spec
MaxRunDocs == 2      \* documents of a corpus, specification SpecRuns
MaxLifeQueryLen == 1 \* tokens of a query, specification Spec
MaxSearchDocs == 3   \* documents of a corpus, specification SpecSearch
MaxQueryLen == 2     \* tokens of a query, specification SpecSearch
MaxRepeatQueryLen == 3 \* tokens of a query, specification SpecRepeat
MaxTopK == 2         \* top_k ranges over 1..MaxTopK
MaxSegDocs == 2      \* documents of a corpus, specification SpecSeg
MaxSegSents == 2     \* sentences of a document, specification SpecSeg
MaxTitleDocLines == 6 \* lines of a document, specification SpecTitle
MaxCapSents == 3     \* sentences of a document, specification SpecCap
MaxAnswerDocs == 2   \* documents of a corpus, specification SpecAnswer
MaxAnswerQueryLen == 2 \* tokens of a query, specification SpecAnswer
MaxTwiceDocs == 2    \* documents of a corpus, specification SpecTwice

(* Program constants                                                       *)

MinDocLen == 100     \* len(paper_text.strip()) < 100: document dropped
MinChunkLen == 100   \* len(current_chunk.strip()) > 100: chunk emitted
ChunkSize == 800     \* len(current_chunk + sentence) < 800
MinTermLen == 2      \* len(clean_word) > 2
TitleLines == 5      \* lines[:5]
MinTitleLen == 10    \* len(clean_line) > 10
MaxTitleLen == 100   \* clean_line[:100]
AnswerChunks == 3    \* results[:3]
MinSentenceLen == 20 \* len(sentence) < 20: skipped
AnswerSentences == 3 \* relevant_sentences[:3]
QueryTopK == 5       \* self.search(question, top_k=5)
RefTopK == 8         \* self.document_retrieval(user_query, top_k=8)
PromptDocs == 3      \* relevant_docs[:3]
PromptTitleLen == 50 \* doc.title[:50]
HeaderLen == 19      \* len("Document 1 (Title: ")
KontextLen == 39     \* len("KONTEXT AUS WISSENSCHAFTLICHEN PAPERS:\n")
GlueLen == 3         \* len("):\n")
LongTextLen == 500   \* len(doc.text) > 500
TfIdfShare == 7      \* doc.relevance_score * 0.7, in tenths
OverlapShare == 2    \* overlap_bonus * 0.2, in tenths
TitleShare == 1      \* title_bonus * 0.1, in tenths
TitleBonus == 5000   \* title_overlap * 0.5, in the unit of the scores (1.0 = 10000)
One == 10000         \* 1.0 in the unit of the scores

-----------------------------------------------------------------------------
(* Tokens                                                                  *)

\* "alpha", "beta", "gamma": lower-case words of 99 letters; "Alpha,": the word
\* alpha capitalised and followed by a comma; "of": a word of 2 letters;
\* "--": a token of punctuation only; "long400", "long801": words of 400 and
\* 801 letters; "long397", "long398", "long800": words of 397, 398 and 800
\* letters; "word12": a word of 12 letters; "http20": an address of 20
\* characters that begins with "http".
Token == {"alpha", "beta", "gamma", "Alpha,", "of", "--", "long400", "long801", "word12",
          "http20", "long397", "long398", "long800"}

Chars(tok) ==
    CASE tok = "alpha" -> 99
      [] tok = "beta" -> 99
      [] tok = "gamma" -> 99
      [] tok = "Alpha," -> 100
      [] tok = "of" -> 2
      [] tok = "--" -> 2
      [] tok = "long400" -> 400
      [] tok = "long801" -> 801
      [] tok = "word12" -> 12
      [] tok = "http20" -> 20
      [] tok = "long397" -> 397
      [] tok = "long398" -> 398
      [] tok = "long800" -> 800

\* re.sub(r'[^\w\s]', '', word.lower()).strip()
clean_word(word) ==
    CASE word = "Alpha," -> "alpha"
      [] word = "--" -> ""
      [] OTHER -> word

\* len() of a normalized term
TermLen(term) == IF term = "" THEN 0 ELSE Chars(term)

-----------------------------------------------------------------------------
(* Sequences                                                               *)

RECURSIVE SumSeq(_)
SumSeq(s) == IF s = <<>> THEN 0 ELSE Head(s) + SumSeq(Tail(s))

RECURSIVE Flatten(_)
Flatten(ss) == IF ss = <<>> THEN <<>> ELSE Head(ss) \o Flatten(Tail(ss))

Range(s) == {s[i] : i \in 1..Len(s)}

SeqsUpTo(S, lo, hi) == UNION {[1..n -> S] : n \in lo..hi}

Min(a, b) == IF a < b THEN a ELSE b

Take(s, n) == SubSeq(s, 1, Min(n, Len(s)))

-----------------------------------------------------------------------------
(* Lengths of text                                                         *)

\* len(sentence.strip()): the tokens and one space between two of them
SentenceLen(sentence) ==
    IF sentence = <<>> THEN 0
    ELSE SumSeq([i \in 1..Len(sentence) |-> Chars(sentence[i])]) + (Len(sentence) - 1)

\* len() of "s1. s2. ... sn. ", the buffer current_chunk
BufferLen(sents) == SumSeq([i \in 1..Len(sents) |-> SentenceLen(sents[i]) + 2])

\* len(current_chunk.strip()): the buffer without its last space
StrippedLen(sents) == IF sents = <<>> THEN 0 ELSE BufferLen(sents) - 1

\* a line "s1. s2. ... sn."
LineLen(line) == StrippedLen(line)

RECURSIVE StripLines(_)
\* paper_text.strip(): empty lines at both ends go away
StripLines(doc) ==
    IF doc = <<>> THEN <<>>
    ELSE IF Head(doc) = <<>> THEN StripLines(Tail(doc))
    ELSE IF doc[Len(doc)] = <<>> THEN StripLines(SubSeq(doc, 1, Len(doc) - 1))
    ELSE doc

\* len(paper_text.strip()): the lines and one "\n" between two of them
DocLen(doc) ==
    LET d == StripLines(doc)
    IN  IF d = <<>> THEN 0
        ELSE SumSeq([i \in 1..Len(d) |-> LineLen(d[i])]) + (Len(d) - 1)

\* re.split(r'[.!?]+', paper_text), stripped, the empty pieces skipped
DocSentences(doc) == Flatten(doc)

-----------------------------------------------------------------------------
(* intelligent_chunking                                                    *)

\* clean_line.startswith('http')
StartsWithHttp(line) == line # <<>> /\ line[1] # <<>> /\ line[1][1] = "http20"

\* The title: the first of lines[:5] longer than 10 characters that does not
\* begin with "http", cut at 100 characters.
ExtractTitle(doc) ==
    LET lines == Take(StripLines(doc), TitleLines)
        good == {i \in 1..Len(lines) :
                    LineLen(lines[i]) > MinTitleLen /\ ~StartsWithHttp(lines[i])}
    IN  IF good = {} THEN [line |-> <<>>, cut |-> FALSE, unknown |-> TRUE]
        ELSE LET i == CHOOSE j \in good : \A k \in good : j <= k
             IN  [line |-> lines[i], cut |-> LineLen(lines[i]) > MaxTitleLen,
                  unknown |-> FALSE]

\* The mutant emits every non-empty buffer, whatever its length.
EmitsAny(buffer) == buffer # <<>>

\* len(current_chunk.strip()) > 100
Emits(buffer) == StrippedLen(buffer) > MinChunkLen

\* not (len(paper_text.strip()) < 100)
DocSurvives(doc) == ~(DocLen(doc) < MinDocLen)

RECURSIVE ChunkSentencesLeq(_, _, _)
\* The mutant lets the buffer and the sentence reach the cap itself.
ChunkSentencesLeq(sentences, current_chunk, out) ==
    IF sentences = <<>>
    THEN IF Emits(current_chunk) THEN Append(out, current_chunk) ELSE out
    ELSE LET sentence == Head(sentences)
         IN  IF BufferLen(current_chunk) + SentenceLen(sentence) <= ChunkSize
             THEN ChunkSentencesLeq(Tail(sentences), Append(current_chunk, sentence), out)
             ELSE ChunkSentencesLeq(Tail(sentences), <<sentence>>,
                                    IF Emits(current_chunk)
                                    THEN Append(out, current_chunk) ELSE out)

RECURSIVE ChunkSentences(_, _, _)
\* The loop over the sentences of one document: the texts of its chunks, in
\* order.  A text is the sequence of sentences of the buffer it was cut from.
ChunkSentences(sentences, current_chunk, out) ==
    IF sentences = <<>>
    THEN IF Emits(current_chunk) THEN Append(out, current_chunk) ELSE out
    ELSE LET sentence == Head(sentences)
         IN  IF BufferLen(current_chunk) + SentenceLen(sentence) < ChunkSize
             THEN ChunkSentences(Tail(sentences), Append(current_chunk, sentence), out)
             ELSE ChunkSentences(Tail(sentences), <<sentence>>,
                                 IF Emits(current_chunk)
                                 THEN Append(out, current_chunk) ELSE out)

\* The mutant starts the counter again at 0 for every document.
ChunkIdPerPaper(out, j) == j - 1

\* chunk_id when the j-th chunk of a document is appended: the counter starts
\* at 0 and is incremented after every append, so it is the number of chunks
\* appended before.
ChunkId(out, j) == Len(out) + j - 1

RECURSIVE ChunkPapers(_, _, _)
\* The loop over the documents; i is the index of the document in papers.
ChunkPapers(papers, i, out) ==
    IF i > Len(papers) THEN out
    ELSE IF ~DocSurvives(papers[i]) THEN ChunkPapers(papers, i + 1, out)
    ELSE LET texts == ChunkSentences(DocSentences(papers[i]), <<>>, <<>>)
             title == ExtractTitle(papers[i])
             new == [j \in 1..Len(texts) |->
                        [id |-> ChunkId(out, j), text |-> texts[j],
                         title |-> title, paper_id |-> i - 1]]
         IN  ChunkPapers(papers, i + 1, out \o new)

intelligent_chunking(text) == ChunkPapers(text, 1, <<>>)

-----------------------------------------------------------------------------
(* Numbers                                                                 *)

RECURSIVE GCD(_, _)
GCD(a, b) == IF b = 0 THEN a ELSE GCD(b, a % b)

\* The rational n/d (d > 0) in lowest terms; n >= 0 or n < 0.
Rat(n, d) ==
    LET g == GCD(IF n < 0 THEN -n ELSE n, d)
    IN  IF n = 0 THEN [n |-> 0, d |-> 1] ELSE [n |-> n \div g, d |-> d \div g]

Zero == Rat(0, 1)
\* Sum and order of two rationals, over the least common denominator
RatAdd(a, b) ==
    LET g == GCD(a.d, b.d)
    IN  Rat(a.n * (b.d \div g) + b.n * (a.d \div g), (a.d \div g) * b.d)
\* Product of two rationals that are not negative, the common factors of a
\* numerator and the other denominator taken out first
RatMul(a, b) ==
    LET g == GCD(a.n, b.d)
        h == GCD(b.n, a.d)
    IN  Rat((a.n \div g) * (b.n \div h), (a.d \div h) * (b.d \div g))
RECURSIVE FracLess(_, _, _, _)
\* an/ad < bn/bd for ad, bd > 0: by the whole parts, then by the remainders
\* turned upside down, with no product that could leave the integers of TLC
FracLess(an, ad, bn, bd) ==
    IF an \div ad # bn \div bd THEN an \div ad < bn \div bd
    ELSE IF bn % bd = 0 THEN FALSE
    ELSE IF an % ad = 0 THEN TRUE
    ELSE FracLess(bd, bn % bd, ad, an % ad)
RatLess(a, b) == FracLess(a.n, a.d, b.n, b.d)
RatLeq(a, b) == ~RatLess(b, a)

\* 10000 * ln(n), with ln(a*b) = ln(a) + ln(b) kept exact
LnTab(n) ==
    CASE n = 1 -> 0
      [] n = 2 -> 6931
      [] n = 3 -> 10986
      [] n = 4 -> 13862
      [] n = 5 -> 16094
      [] n = 6 -> 17917
      [] n = 7 -> 19459
      [] n = 8 -> 20793
      [] n = 9 -> 21972
      [] n = 10 -> 23025
      [] n = 11 -> 23979
      [] n = 12 -> 24848

\* The mutant takes the logarithm of df / N.
idf_inverted(total_docs, df) == LnTab(df) - LnTab(total_docs)

\* The mutant smooths the quotient: the logarithm of (N + 1) / df.
idf_smoothed(total_docs, df) == LnTab(total_docs + 1) - LnTab(df)

\* math.log(total_docs / df[word])
idf_score(total_docs, df) == LnTab(total_docs) - LnTab(df)

-----------------------------------------------------------------------------
(* Python values                                                           *)

\* Every attribute is [t |-> its python type, v |-> its value]; a value of a
\* type the engine does not expect is kept as Junk.
Junk == <<"junk">>
Val(t, v) == [t |-> t, v |-> v]

\* The keys of tf_idf_scores: the int i and the string str(i)
PyInt(i) == <<"int", i>>
PyStr(i) == <<"str", i>>

EmptyDict == [k \in {} |-> Junk]

-----------------------------------------------------------------------------
(* build_word_index, calculate_tf_idf                                      *)

\* [self.clean_word(w) for w in chunk['text'].split()]
ChunkWords(chunk) ==
    LET toks == Flatten(chunk.text)
    IN  [i \in 1..Len(toks) |-> clean_word(toks[i])]

\* The mutant indexes the short words too.
IndexableAny(term) == term # ""

\* len(clean_word) > 2
Indexable(term) == TermLen(term) > MinTermLen

IndexTerms(chunk_list) ==
    {t \in UNION {Range(ChunkWords(chunk_list[i])) : i \in 1..Len(chunk_list)} :
        Indexable(t)}

\* The posting sets build_word_index leaves in a cleared defaultdict(set).
Postings(chunk_list) ==
    [t \in IndexTerms(chunk_list) |->
        {chunk_list[i].id : i \in {j \in 1..Len(chunk_list) :
                                      t \in Range(ChunkWords(chunk_list[j]))}}]

\* The mutant adds to a plain dict whatever word_index was: a KeyError on the
\* first indexable word.
build_word_index_plain(chunk_list, wi) ==
    [raised |-> IndexTerms(chunk_list) # {}, word_index |-> Val("dict", EmptyDict)]

\* The mutant catches the KeyError of a plain dict and goes on without the word.
build_word_index_swallow(chunk_list, wi) ==
    IF wi.t = "defaultdict"
    THEN [raised |-> FALSE, word_index |-> Val("defaultdict", Postings(chunk_list))]
    ELSE [raised |-> FALSE, word_index |-> Val(wi.t, EmptyDict)]

\* build_word_index: clear(), then self.word_index[clean_word].add(chunk_id),
\* a KeyError on the first indexable word when word_index is a plain dict.
build_word_index(chunk_list, wi) ==
    IF wi.t = "defaultdict"
    THEN [raised |-> FALSE, word_index |-> Val("defaultdict", Postings(chunk_list))]
    ELSE [raised |-> IndexTerms(chunk_list) # {}, word_index |-> Val(wi.t, EmptyDict)]

Count(words, term) == Cardinality({i \in 1..Len(words) : words[i] = term})

\* tf_score * idf_score of one term of one chunk
Weight(words, term, total_docs, df) ==
    LET idf == idf_score(total_docs, df)
    IN  Rat(Count(words, term) * idf, Len(words))

\* calculate_tf_idf over a word index wi_v (a function term -> posting set)
calculate_tf_idf(chunk_list, wi_v) ==
    LET total_docs == Len(chunk_list)
        scored == {i \in 1..Len(chunk_list) : Len(ChunkWords(chunk_list[i])) # 0}
        ScoresOf(i) ==
            LET words == ChunkWords(chunk_list[i])
                keys == {w \in Range(words) : Indexable(w) /\ w \in DOMAIN wi_v}
            IN  [w \in keys |-> Weight(words, w, total_docs, Cardinality(wi_v[w]))]
    IN  [k \in {PyInt(chunk_list[i].id) : i \in scored} |->
            ScoresOf(CHOOSE i \in scored : chunk_list[i].id = k[2])]

-----------------------------------------------------------------------------
(* The working set and the snapshot file                                   *)

\* The attributes __init__ sets before load_or_create_index
Blank ==
    [chunks |-> Val("list", <<>>),
     word_index |-> Val("defaultdict", EmptyDict),
     tf_idf_scores |-> Val("dict", EmptyDict)]

Absent == [kind |-> "absent", data |-> EmptyDict]
\* A file that holds a proper prefix of a JSON text (possibly nothing).
Partial == [kind |-> "partial", data |-> EmptyDict]
Json(data) == [kind |-> "json", data |-> data]

RECURSIVE SetToList(_)
\* list(v), for v in a set: the elements in the order the set iterates.  A set
\* of ints below 8 iterates in ascending order (an int hashes to itself and
\* the table of a small set has 8 slots); the model stays below 8 passages.
SetToList(S) ==
    IF S = {} THEN <<>>
    ELSE LET x == CHOOSE y \in S : \A z \in S : y <= z
         IN  <<x>> \o SetToList(S \ {x})

\* json.dump turns every key of a dict into a string
JsonKey(k) == PyStr(k[2])

\* The text json.dump(data, f) writes, as the JSON value it denotes
JsonDump(m) ==
    [chunks |-> Val("list", m.chunks.v),
     word_index |-> Val("dict", [t \in DOMAIN m.word_index.v |->
                                    SetToList(m.word_index.v[t])]),
     tf_idf_scores |-> Val("dict",
        [k \in {JsonKey(j) : j \in DOMAIN m.tf_idf_scores.v} |->
            m.tf_idf_scores.v[CHOOSE j \in DOMAIN m.tf_idf_scores.v : JsonKey(j) = k]])]

\* The try block of load_or_create_index on an existing file: the attributes
\* it has assigned when it returns (loaded) or when the bare except catches.
TryLoad(file, m) ==
    IF file.kind # "json" THEN [loaded |-> FALSE, m |-> m]            \* json.load raises
    ELSE IF "chunks" \notin DOMAIN file.data THEN [loaded |-> FALSE, m |-> m]
    ELSE LET m1 == [m EXCEPT !.chunks = file.data["chunks"]]
         IN  IF "word_index" \notin DOMAIN file.data THEN [loaded |-> FALSE, m |-> m1]
             ELSE IF file.data["word_index"].t # "dict"               \* no .items()
                  THEN [loaded |-> FALSE, m |-> m1]
             ELSE LET wi == file.data["word_index"].v
                      m2 == [m1 EXCEPT !.word_index =
                                Val("dict", [t \in DOMAIN wi |-> Range(wi[t])])]
                  IN  IF "tf_idf_scores" \notin DOMAIN file.data
                      THEN [loaded |-> FALSE, m |-> m2]
                      ELSE LET m3 == [m2 EXCEPT !.tf_idf_scores =
                                         file.data["tf_idf_scores"]]
                           IN  IF m3.chunks.t = "num"                 \* len(self.chunks)
                               THEN [loaded |-> FALSE, m |-> m3]
                               ELSE [loaded |-> TRUE, m |-> m3]

\* The mutant appends the new chunks to the list the engine already has.
create_index_append(text, m) ==
    LET chunk_list == (IF m.chunks.t = "list" THEN m.chunks.v ELSE <<>>)
                          \o intelligent_chunking(text)
        b == build_word_index(chunk_list, m.word_index)
    IN  [raised |-> b.raised \/ m.tf_idf_scores.t # "dict",
         m |-> [chunks |-> Val("list", chunk_list),
                word_index |-> b.word_index,
                tf_idf_scores |-> IF b.raised \/ m.tf_idf_scores.t # "dict"
                                  THEN m.tf_idf_scores
                                  ELSE Val("dict", calculate_tf_idf(chunk_list,
                                                                    b.word_index.v))]]

\* create_index up to the call of save_index: segmentation, index, weights.
\* raised: build_word_index or calculate_tf_idf raised; m then holds what had
\* been assigned when the exception left create_index.
create_index(text, m) ==
    LET chunk_list == intelligent_chunking(text)
        b == build_word_index(chunk_list, m.word_index)
    IN  IF b.raised \/ m.tf_idf_scores.t # "dict"          \* [clean_word].add, .clear()
        THEN [raised |-> TRUE,
              m |-> [chunks |-> Val("list", chunk_list),
                     word_index |-> b.word_index,
                     tf_idf_scores |-> m.tf_idf_scores]]
        ELSE [raised |-> FALSE,
              m |-> [chunks |-> Val("list", chunk_list),
                     word_index |-> b.word_index,
                     tf_idf_scores |-> Val("dict",
                         calculate_tf_idf(chunk_list, b.word_index.v))]]

\* The working set a full build of a corpus produces in a fresh engine
Built(text) == create_index(text, Blank).m

-----------------------------------------------------------------------------
(* search and document_retrieval                                           *)

\* The elements of s at the indices of kept, in their order: what a list
\* comprehension with a condition, or a loop with `continue`, keeps
Select(s, kept) ==
    [j \in 1..Cardinality(kept) |->
        s[CHOOSE i \in kept : Cardinality({k \in kept : k <= i}) = j]]

\* The mutant keeps the first occurrence of every term only.
QueryWordsOnce(query) ==
    LET cleaned == [i \in 1..Len(query) |-> clean_word(query[i])]
    IN  Select(cleaned, {i \in 1..Len(cleaned) :
                            /\ Indexable(cleaned[i])
                            /\ \A j \in 1..(i - 1) : cleaned[j] # cleaned[i]})

\* [w for w in [clean_word(w) for w in query.split()] if len(w) > 2]
QueryWords(query) ==
    LET cleaned == [i \in 1..Len(query) |-> clean_word(query[i])]
    IN  Select(cleaned, {i \in 1..Len(cleaned) : Indexable(cleaned[i])})

\* The (chunk_id, weight) additions of the two nested loops, in the order they
\* happen; key is the type of the key under which tf_idf_scores is asked for a
\* chunk id: "int" for chunk_id, "str" for str(chunk_id).
RECURSIVE Hits(_, _, _)
Hits(m, words, key) ==
    IF words = <<>> THEN <<>>
    ELSE LET word == Head(words)
             ids == IF word \in DOMAIN m.word_index.v
                    THEN SetToList(m.word_index.v[word]) ELSE <<>>
             tf == m.tf_idf_scores.v
             scored == Select(ids, {i \in 1..Len(ids) :
                                       /\ <<key, ids[i]>> \in DOMAIN tf
                                       /\ word \in DOMAIN tf[<<key, ids[i]>>]})
         IN  [i \in 1..Len(scored) |-> <<scored[i], tf[<<key, scored[i]>>][word]>>]
             \o Hits(m, Tail(words), key)

\* chunk_scores[chunk_id] += weight on a dict that keeps insertion order
AddHit(scores, hit) ==
    IF \E i \in 1..Len(scores) : scores[i][1] = hit[1]
    THEN [i \in 1..Len(scores) |->
             IF scores[i][1] = hit[1]
             THEN <<hit[1], RatAdd(scores[i][2], hit[2])>> ELSE scores[i]]
    ELSE Append(scores, hit)

RECURSIVE Accumulate(_, _)
Accumulate(hits, scores) ==
    IF hits = <<>> THEN scores ELSE Accumulate(Tail(hits), AddHit(scores, Head(hits)))

\* chunk_scores.items() after the loops
ChunkScores(m, query, key) ==
    Accumulate(Hits(m, QueryWords(query), key), <<>>)

\* The mutant puts the item in front of the items with its own score.
InsertSortedFront(sorted, item) ==
    LET before == {i \in 1..Len(sorted) : RatLess(item[2], sorted[i][2])}
        n == Cardinality(before)
    IN  SubSeq(sorted, 1, n) \o <<item>> \o SubSeq(sorted, n + 1, Len(sorted))

\* One step of a stable sort by descending score: the item goes behind every
\* item whose score is greater than or equal to its own.
InsertSorted(sorted, item) ==
    LET before == {i \in 1..Len(sorted) : ~RatLess(sorted[i][2], item[2])}
        n == Cardinality(before)
    IN  SubSeq(sorted, 1, n) \o <<item>> \o SubSeq(sorted, n + 1, Len(sorted))

RECURSIVE SortByScore(_, _)
\* sorted(chunk_scores.items(), key=lambda x: x[1], reverse=True)
SortByScore(items, sorted) ==
    IF items = <<>> THEN sorted
    ELSE SortByScore(Tail(items), InsertSorted(sorted, Head(items)))

\* The mutant ignores top_k.
CutAll(sorted, top_k) == sorted

\* sorted_chunks[:top_k]
Cut(sorted, top_k) == Take(sorted, top_k)

\* The loops touch tf_idf_scores with `chunk_id in self.tf_idf_scores`: a
\* TypeError when it is a number, or a string asked for an int; a string asked
\* for str(chunk_id) answers False (the junk string holds no digit).
TouchesBadScores(m, query, key) ==
    /\ m.tf_idf_scores.t # "dict"
    /\ ~(m.tf_idf_scores.t = "str" /\ key = "str")
    /\ \E w \in Range(QueryWords(query)) :
          w \in DOMAIN m.word_index.v /\ m.word_index.v[w] # {}

\* next(c for c in self.chunks if c['id'] == chunk_id) finds a record
HasChunk(m, id) ==
    /\ m.chunks.t = "list"
    /\ \E i \in 1..Len(m.chunks.v) : m.chunks.v[i].id = id

ChunkOf(m, id) ==
    m.chunks.v[CHOOSE i \in 1..Len(m.chunks.v) :
                   /\ m.chunks.v[i].id = id
                   /\ \A j \in 1..(i - 1) : m.chunks.v[j].id # id]

\* The body shared by search and document_retrieval.  raised: an exception
\* left the call; results: the (chunk, score) pairs returned.
Retrieve(m, query, top_k, key) ==
    IF QueryWords(query) = <<>> THEN [raised |-> FALSE, results |-> <<>>]
    ELSE IF TouchesBadScores(m, query, key) THEN [raised |-> TRUE, results |-> <<>>]
    ELSE IF m.tf_idf_scores.t # "dict" THEN [raised |-> FALSE, results |-> <<>>]
    ELSE LET top == Cut(SortByScore(ChunkScores(m, query, key), <<>>), top_k)
         IN  IF \E i \in 1..Len(top) : ~HasChunk(m, top[i][1])
             THEN [raised |-> TRUE, results |-> <<>>]
             ELSE [raised |-> FALSE,
                   results |-> [i \in 1..Len(top) |->
                                   [chunk |-> ChunkOf(m, top[i][1]), score |-> top[i][2]]]]

\* The mutant reads self.word_index[word] without asking `word in`: a KeyError
\* for a query term that is not indexed.
search_unguarded(m, query, top_k) ==
    IF \E w \in Range(QueryWords(query)) : w \notin DOMAIN m.word_index.v
    THEN [raised |-> TRUE, results |-> <<>>]
    ELSE Retrieve(m, query, top_k, "int")

\* BasicRAGSystem.search: tf_idf_scores is asked for the int chunk_id
search(m, query, top_k) == Retrieve(m, query, top_k, "int")

\* RAGReferenceSystem.document_retrieval: it is asked for str(chunk_id)
document_retrieval(m, query, top_k) == Retrieve(m, query, top_k, "str")

\* `for chunk_id in self.word_index[word]` walks a set: the language leaves
\* the order of the walk open, and a set that was written as a list and read
\* back need not be walked as the set it was written from.  An order gives,
\* for every term of word_index, one sequence of its posting set.
Orders(m) ==
    {order \in [DOMAIN m.word_index.v ->
                   UNION {[1..n -> 0..n] : n \in 0..Len(m.chunks.v)}] :
        \A w \in DOMAIN m.word_index.v :
            /\ Len(order[w]) = Cardinality(m.word_index.v[w])
            /\ Range(order[w]) = m.word_index.v[w]}

RECURSIVE HitsIn(_, _, _, _)
\* The additions of the two nested loops when the sets are walked as in order
HitsIn(m, words, key, order) ==
    IF words = <<>> THEN <<>>
    ELSE LET word == Head(words)
             ids == IF word \in DOMAIN m.word_index.v THEN order[word] ELSE <<>>
             tf == m.tf_idf_scores.v
             scored == Select(ids, {i \in 1..Len(ids) :
                                       /\ <<key, ids[i]>> \in DOMAIN tf
                                       /\ word \in DOMAIN tf[<<key, ids[i]>>]})
         IN  [i \in 1..Len(scored) |-> <<scored[i], tf[<<key, scored[i]>>][word]>>]
             \o HitsIn(m, Tail(words), key, order)

\* search and document_retrieval when the sets are walked as in order
RetrieveIn(m, query, top_k, key, order) ==
    IF QueryWords(query) = <<>> THEN [raised |-> FALSE, results |-> <<>>]
    ELSE IF TouchesBadScores(m, query, key) THEN [raised |-> TRUE, results |-> <<>>]
    ELSE IF m.tf_idf_scores.t # "dict" THEN [raised |-> FALSE, results |-> <<>>]
    ELSE LET scores == Accumulate(HitsIn(m, QueryWords(query), key, order), <<>>)
             top == Cut(SortByScore(scores, <<>>), top_k)
         IN  IF \E i \in 1..Len(top) : ~HasChunk(m, top[i][1])
             THEN [raised |-> TRUE, results |-> <<>>]
             ELSE [raised |-> FALSE,
                   results |-> [i \in 1..Len(top) |->
                                   [chunk |-> ChunkOf(m, top[i][1]), score |-> top[i][2]]]]

-----------------------------------------------------------------------------
(* generate_answer and query                                               *)

\* "Keine relevanten Informationen gefunden."
NothingFound == [kind |-> "nothing", lines |-> <<>>, question |-> <<>>]
\* "Die gefundenen Dokumente enthalten Informationen zu '{question}', ..."
Fallback(question) == [kind |-> "fallback", lines |-> <<>>, question |-> question]
\* "Basierend auf den gefundenen Dokumenten:" and one bullet line per sentence
Bullets(lines) == [kind |-> "bullets", lines |-> lines, question |-> <<>>]

\* set(self.clean_word(w) for w in text.split())
WordSet(tokens) == {clean_word(tokens[i]) : i \in 1..Len(tokens)}

\* The mutant writes a bullet for every relevant sentence.
generate_answer_uncut(question, results) ==
    IF results = <<>> THEN NothingFound
    ELSE LET top_chunks == Take(results, AnswerChunks)
             sentences == Flatten([i \in 1..Len(top_chunks) |-> top_chunks[i].chunk.text])
             question_words == WordSet(question)
             Overlap(sentence) == Cardinality(question_words \cap WordSet(sentence))
             long == Select(sentences, {i \in 1..Len(sentences) :
                                           ~(SentenceLen(sentences[i]) < MinSentenceLen)})
             relevant == Select(long, {i \in 1..Len(long) : Overlap(long[i]) >= 1})
             ranked == SortByScore([i \in 1..Len(relevant) |->
                                       <<relevant[i], Rat(Overlap(relevant[i]), 1)>>], <<>>)
         IN  IF relevant # <<>> THEN Bullets([i \in 1..Len(ranked) |-> ranked[i][1]])
             ELSE Fallback(question)

generate_answer(question, results) ==
    IF results = <<>> THEN NothingFound
    ELSE LET top_chunks == Take(results, AnswerChunks)
             \* re.split(r'[.!?]+', " ".join(texts)): the sentences of the texts
             sentences == Flatten([i \in 1..Len(top_chunks) |-> top_chunks[i].chunk.text])
             question_words == WordSet(question)
             Overlap(sentence) == Cardinality(question_words \cap WordSet(sentence))
             long == Select(sentences, {i \in 1..Len(sentences) :
                                           ~(SentenceLen(sentences[i]) < MinSentenceLen)})
             relevant == Select(long, {i \in 1..Len(long) : Overlap(long[i]) >= 1})
             ranked == SortByScore([i \in 1..Len(relevant) |->
                                       <<relevant[i], Rat(Overlap(relevant[i]), 1)>>], <<>>)
             best == Take(ranked, AnswerSentences)
         IN  IF relevant # <<>> THEN Bullets([i \in 1..Len(best) |-> best[i][1]])
             ELSE Fallback(question)

\* BasicRAGSystem.query: search with top_k = 5, then the answer and the sources
query(m, question) ==
    LET r == search(m, question, QueryTopK)
    IN  IF r.raised THEN [raised |-> TRUE, answer |-> NothingFound, sources |-> <<>>]
        ELSE IF r.results = <<>>
        THEN [raised |-> FALSE, answer |-> NothingFound, sources |-> <<>>]
        ELSE [raised |-> FALSE,
              answer |-> generate_answer(question, r.results),
              sources |-> [i \in 1..Len(r.results) |->
                              [title |-> r.results[i].chunk.title,
                               text |-> r.results[i].chunk.text,
                               score |-> r.results[i].score]]]

-----------------------------------------------------------------------------
(* RAGReferenceSystem: reranking, prompting, local generation, query       *)

\* The tokens of a line "s1. s2. ... sn." and the characters [start, end) each
\* occupies; dot: the token ends its sentence and is followed by "."; sent:
\* the number of its sentence.
TokenSpans(line) ==
    LET toks == Flatten(line)
        Upto(n) == SumSeq([i \in 1..n |-> Len(line[i])])
        Dot(k) == \E n \in 1..Len(line) : Upto(n) = k
        Sent(k) == CHOOSE n \in 1..Len(line) : Upto(n - 1) < k /\ k <= Upto(n)
        Width(k) == Chars(toks[k]) + (IF Dot(k) THEN 1 ELSE 0)
        Start(k) == SumSeq([i \in 1..(k - 1) |-> Width(i) + 1])
    IN  [k \in 1..Len(toks) |->
            [tok |-> toks[k], start |-> Start(k), end |-> Start(k) + Chars(toks[k]),
             dot |-> Dot(k), sent |-> Sent(k)]]

\* set(clean_word(w) for w in doc.title.split()): the title is "Unknown Paper",
\* the first line, or its first 100 characters followed by "...".  A word cut
\* short is the term "cut"; "..." alone after a space normalizes to "".
TitleTerms(title) ==
    LET spans == TokenSpans(title.line)
        L == MaxTitleLen
    IN  IF title.unknown THEN {"unknown", "paper"}
        ELSE IF ~title.cut THEN {clean_word(spans[k].tok) : k \in 1..Len(spans)}
        ELSE {IF spans[k].end <= L THEN clean_word(spans[k].tok) ELSE "cut" :
                 k \in {j \in 1..Len(spans) : spans[j].start < L}}
             \cup (IF \E k \in 1..Len(spans) : spans[k].start = L THEN {""} ELSE {})

\* The parts of the first 50 characters of a title whose tokens are at spans:
\* one part per sentence that begins there, with its words and its length
PartsOfSpans(spans) ==
    LET L == PromptTitleLen
        in == {k \in 1..Len(spans) : spans[k].start < L}
        sents == {spans[k].sent : k \in in}
        Of(n) == {k \in in : spans[k].sent = n}
        First(n) == CHOOSE k \in Of(n) : \A j \in Of(n) : k <= j
        Last(n) == CHOOSE k \in Of(n) : \A j \in Of(n) : j <= k
    IN  [n \in 1..Cardinality(sents) |->
            [words |-> {IF spans[k].end <= L THEN clean_word(spans[k].tok) ELSE "cut" :
                           k \in Of(n)},
             len |-> Min(spans[Last(n)].end, L) - spans[First(n)].start]]

\* re.split(r'[.!?]+', doc.title[:50] + "..."): the parts of the title in the
\* header of a document of the prompt
TitleParts(title) ==
    IF title.unknown
    THEN <<[words |-> {"unknown", "paper"}, len |-> 13]>>
    ELSE CHOOSE parts \in {PartsOfSpans(spans) : spans \in {TokenSpans(title.line)}} : TRUE

\* The words of "KONTEXT AUS WISSENSCHAFTLICHEN PAPERS:" and "Document i (Title:"
HeaderWords(i) ==
    (IF i = 1 THEN {"kontext", "aus", "wissenschaftlichen", "papers"} ELSE {})
        \cup {"document", "title"} \cup {IF i = 1 THEN "1" ELSE IF i = 2 THEN "2" ELSE "3"}

\* The pieces of the i-th document of the prompt, parts the parts of its
\* title: the header with the first part of the title, the other parts of the
\* title, the first sentence of the text behind "):" and a line break, the
\* other sentences.
PiecesOfParts(parts, text, i) ==
    LET header == [kind |-> "header", glued |-> FALSE, sentence |-> <<>>,
                   words |-> HeaderWords(i) \cup (IF parts = <<>> THEN {} ELSE parts[1].words),
                   len |-> (IF i = 1 THEN KontextLen ELSE 0) + HeaderLen
                              + (IF parts = <<>> THEN 0 ELSE parts[1].len)]
        titles == [n \in 1..(Len(parts) - 1) |->
                     [kind |-> "title", glued |-> FALSE, sentence |-> <<>>,
                      words |-> parts[n + 1].words, len |-> parts[n + 1].len]]
        texts == [n \in 1..Len(text) |->
                     [kind |-> "text", glued |-> n = 1, sentence |-> text[n],
                      words |-> WordSet(text[n]) \cup (IF n = 1 THEN {""} ELSE {}),
                      len |-> SentenceLen(text[n]) + (IF n = 1 THEN GlueLen ELSE 0)]]
    IN  <<header>> \o titles \o texts

\* re.split(r'[.!?]+', context) for the i-th document of the prompt
DocPieces(doc, i) ==
    CHOOSE pieces \in {PiecesOfParts(parts, doc.chunk.text, i) :
                          parts \in {TitleParts(doc.chunk.title)}} : TRUE

\* The context of the prompt for relevant_docs[:3], split into sentences
ContextPieces(docs) ==
    LET top == Take(docs, PromptDocs)
    IN  Flatten([i \in 1..Len(top) |-> DocPieces(top[i], i)])

\* "Keine relevanten Dokumente gefunden."
RefNothingFound == [kind |-> "ref_nothing", lines |-> <<>>]
\* "Die gefundenen Dokumente enthalten relevante Informationen, aber ..."
RefFallback == [kind |-> "ref_fallback", lines |-> <<>>]
\* "Basierend auf den wissenschaftlichen Dokumenten:" and the bullet lines
RefBullets(lines) == [kind |-> "ref_bullets", lines |-> lines]

\* The mutant divides by the length of every text, without the `if`.
length_penalty_always(len) == Rat(LongTextLen, len)

\* min(1.0, 500 / len(doc.text)) if len(doc.text) > 500 else 1.0, as a fraction
length_penalty(len) == IF len > LongTextLen THEN Rat(LongTextLen, len) ELSE Rat(1, 1)

\* reranking_and_relevance: the new relevance_score of every document, then a
\* stable sort by descending score
reranking_and_relevance(user_query, docs) ==
    LET query_words == WordSet(user_query)
        New(doc) ==
            LET overlap == Cardinality(query_words \cap WordSet(Flatten(doc.chunk.text)))
                overlap_bonus == IF query_words = {} THEN Zero
                                 ELSE Rat(One * overlap, Cardinality(query_words))
                title_overlap == Cardinality(query_words \cap TitleTerms(doc.chunk.title))
                title_bonus == Rat(TitleBonus * title_overlap, 1)
                len == StrippedLen(doc.chunk.text)
                sum == RatAdd(RatAdd(Rat(doc.score.n * TfIdfShare, doc.score.d * 10),
                                     Rat(overlap_bonus.n * OverlapShare, overlap_bonus.d * 10)),
                              Rat(title_bonus.n * TitleShare, title_bonus.d * 10))
            IN  RatMul(sum, length_penalty(len))
        sorted == SortByScore([i \in 1..Len(docs) |-> <<docs[i].chunk, New(docs[i])>>], <<>>)
    IN  [i \in 1..Len(sorted) |-> [chunk |-> sorted[i][1], score |-> sorted[i][2]]]

\* The loop of _local_generation over the sentences: a piece shorter than 20
\* characters is skipped, a piece with a word of the query is kept
RelevantPieces(query_words, pieces) ==
    Select(pieces, {i \in 1..Len(pieces) :
                       /\ ~(pieces[i].len < MinSentenceLen)
                       /\ Cardinality(query_words \cap pieces[i].words) >= 1})

\* relevant_sentences.sort(key=lambda x: x[1], reverse=True) and [:3]
BestPieces(query_words, relevant) ==
    Take(SortByScore([i \in 1..Len(relevant) |->
                         <<relevant[i],
                           Rat(Cardinality(query_words \cap relevant[i].words), 1)>>], <<>>),
         AnswerSentences)

\* prompting and _local_generation: the query read back from the prompt is the
\* user's query; the sentences are the pieces of the context.
local_generation(user_query, docs) ==
    CHOOSE response \in
        {IF relevant = <<>> THEN RefFallback
         ELSE CHOOSE bullets \in
                  {RefBullets([i \in 1..Len(best) |-> best[i][1]]) :
                      best \in {BestPieces(WordSet(user_query), relevant)}} : TRUE :
            relevant \in {RelevantPieces(WordSet(user_query), pieces) :
                             pieces \in {ContextPieces(docs)}}} : TRUE

\* RAGReferenceSystem.query without an LLM: retrieval with top_k = 8, rerank,
\* prompt, local generation
ref_query(m, user_query) ==
    CHOOSE response \in
        {IF r.raised THEN [raised |-> TRUE, answer |-> RefNothingFound, documents |-> <<>>]
         ELSE IF r.results = <<>>
         THEN [raised |-> FALSE, answer |-> RefNothingFound, documents |-> <<>>]
         ELSE CHOOSE assembled \in
                  {[raised |-> FALSE, answer |-> local_generation(user_query, ranked),
                    documents |-> ranked] :
                      ranked \in {reranking_and_relevance(user_query, r.results)}} : TRUE :
            r \in {document_retrieval(m, user_query, RefTopK)}} : TRUE

-----------------------------------------------------------------------------
(* Inputs                                                                  *)

\* combined_text.txt: [exists, text]
NoFile == [exists |-> FALSE, text |-> <<>>]
TextFile(text) == [exists |-> TRUE, text |-> text]

\* The words of a query: two indexed words, a word too short to be a term,
\* and a word that normalizes to an indexed one
QueryTokens == {"alpha", "beta", "of", "Alpha,"}

\* The sentences of the corpora: 199 or 102 characters each, one passage each
Sentences == {<<"alpha", "alpha">>, <<"beta", "beta">>, <<"alpha", "beta">>,
              <<"of", "alpha">>}
\* A document of one line that holds one sentence, and the empty document
Docs == {<<>>} \cup {<<<<s>>>> : s \in Sentences}
Corpora == SeqsUpTo(Docs, 1, MaxDocs)
LifeQueries == SeqsUpTo(QueryTokens, 0, MaxLifeQueryLen)
SearchCorpora == SeqsUpTo(Docs, 1, MaxSearchDocs)
Queries == SeqsUpTo(QueryTokens, 0, MaxQueryLen)
TopKs == 1..MaxTopK

Fields == {"chunks", "word_index", "tf_idf_scores"}
Restrict(f, S) == [x \in S |-> f[x]]

\* Valid JSON that is not a snapshot: the snapshot of the corpus with one
\* field missing, or with one field holding a number or a string.
Malformed(text) ==
    LET good == JsonDump(Built(text))
    IN  {Json(Restrict(good, Fields \ {f})) : f \in Fields}
        \cup {Json([good EXCEPT ![f] = Val(t, Junk)]) : f \in Fields, t \in {"num", "str"}}

\* The file holds the three fields of a snapshot with the types of a snapshot
WellFormed(file) ==
    /\ file.kind = "json"
    /\ Fields \subseteq DOMAIN file.data
    /\ file.data["chunks"].t = "list"
    /\ file.data["word_index"].t = "dict"
    /\ file.data["tf_idf_scores"].t = "dict"

\* What a run finds at the path of the snapshot file
Kind(file) ==
    CASE file.kind = "absent" -> "absent"
      [] file.kind = "partial" -> "unparseable"
      [] WellFormed(file) -> "snapshot"
      [] OTHER -> "malformed"

NoCall == [who |-> "none", op |-> "none", query |-> <<>>, top_k |-> 0, out |-> <<>>]

Memory == [chunks |-> chunks, word_index |-> word_index, tf_idf_scores |-> tf_idf_scores]

SetMemory(m) ==
    /\ chunks' = m.chunks
    /\ word_index' = m.word_index
    /\ tf_idf_scores' = m.tf_idf_scores

-----------------------------------------------------------------------------
(* BasicRAGSystem                                                          *)

Init ==
    /\ text_file \in {TextFile(c) : c \in Corpora} \cup {NoFile}
    /\ index_file \in {Absent, Partial}
                      \cup (IF text_file.exists THEN Malformed(text_file.text)
                            ELSE {Json(JsonDump(Built(c))) : c \in Corpora})
    /\ pc = "new"
    /\ chunks = Blank.chunks
    /\ word_index = Blank.word_index
    /\ tf_idf_scores = Blank.tf_idf_scores
    /\ origin = "none"
    /\ found = "none"
    /\ save_error = FALSE
    /\ last = NoCall
    /\ ref_pc = "new"
    /\ ref_kb = Blank

\* __init__ with load_or_create_index and create_index, up to save_index
Construct ==
    /\ pc = "new"
    /\ IF ~text_file.exists
       THEN /\ pc' = "raised"                         \* FileNotFoundError
            /\ UNCHANGED <<chunks, word_index, tf_idf_scores, origin, found>>
       ELSE LET r == IF index_file.kind = "absent"
                     THEN [loaded |-> FALSE, m |-> Blank]
                     ELSE TryLoad(index_file, Blank)
                c == create_index(text_file.text, r.m)
            IN  /\ found' = Kind(index_file)
                /\ IF r.loaded
                   THEN /\ SetMemory(r.m)
                        /\ origin' = "loaded"
                        /\ pc' = "ready"
                   ELSE IF c.raised
                   THEN /\ SetMemory(Blank)              \* no engine object
                        /\ origin' = "none"
                        /\ pc' = "raised"
                   ELSE /\ SetMemory(c.m)
                        /\ origin' = "built"
                        /\ pc' = "save_open"
    /\ UNCHANGED <<text_file, index_file, save_error, last, ref_pc, ref_kb>>

\* save_index: open(self.index_file, 'w') truncates the file
SaveOpen ==
    /\ pc = "save_open"
    /\ index_file' = Partial
    /\ pc' = "save_dump"
    /\ UNCHANGED <<text_file, chunks, word_index, tf_idf_scores, origin, found, save_error,
                   last, ref_pc, ref_kb>>

\* save_index: open raises, the except branch prints the warning
SaveOpenFail ==
    /\ pc = "save_open"
    /\ save_error' = TRUE
    /\ pc' = "ready"
    /\ UNCHANGED <<text_file, index_file, chunks, word_index, tf_idf_scores, origin,
                   found, last, ref_pc, ref_kb>>

\* save_index: json.dump writes the whole text and the file is closed
SaveDump ==
    /\ pc = "save_dump"
    /\ index_file' = Json(JsonDump(Memory))
    /\ pc' = "ready"
    /\ UNCHANGED <<text_file, chunks, word_index, tf_idf_scores, origin, found, save_error,
                   last, ref_pc, ref_kb>>

\* The mutant lets the exception of the write leave save_index.
SaveDumpFailRaises ==
    /\ pc = "save_dump"
    /\ save_error' = TRUE
    /\ pc' = "raised"
    /\ UNCHANGED <<text_file, index_file, chunks, word_index, tf_idf_scores, origin,
                   found, last, ref_pc, ref_kb>>

\* save_index: a write raises, the except branch prints the warning
SaveDumpFail ==
    /\ pc = "save_dump"
    /\ save_error' = TRUE
    /\ pc' = "ready"
    /\ UNCHANGED <<text_file, index_file, chunks, word_index, tf_idf_scores, origin,
                   found, last, ref_pc, ref_kb>>

\* The mutant reads self.word_index[word] for every query word: a defaultdict
\* then gets the word as a new key with an empty posting set.
SearchOverInserting(Q) ==
    /\ pc = "ready"
    /\ last = NoCall
    /\ \E q \in Q, k \in TopKs :
          /\ last' = [who |-> "basic", op |-> "search", query |-> q, top_k |-> k,
                      out |-> search(Memory, q, k)]
          /\ word_index' =
                IF word_index.t # "defaultdict" THEN word_index
                ELSE Val("defaultdict",
                         [t \in DOMAIN word_index.v \cup Range(QueryWords(q)) |->
                             IF t \in DOMAIN word_index.v THEN word_index.v[t] ELSE {}])
    /\ UNCHANGED <<text_file, index_file, pc, chunks, tf_idf_scores,
                   origin, found, save_error, ref_pc, ref_kb>>

\* A call of search on the constructed engine, with a query of Q
SearchOver(Q) ==
    /\ pc = "ready"
    /\ last = NoCall
    /\ \E q \in Q, k \in TopKs :
          last' = [who |-> "basic", op |-> "search", query |-> q, top_k |-> k,
                   out |-> search(Memory, q, k)]
    /\ UNCHANGED <<text_file, index_file, pc, chunks, word_index, tf_idf_scores,
                   origin, found, save_error, ref_pc, ref_kb>>

Search == SearchOver(LifeQueries)

\* A call of query on the constructed engine, with a question of Q
QueryOver(Q) ==
    /\ pc = "ready"
    /\ last = NoCall
    /\ \E q \in Q :
          last' = [who |-> "basic", op |-> "query", query |-> q, top_k |-> QueryTopK,
                   out |-> query(Memory, q)]
    /\ UNCHANGED <<text_file, index_file, pc, chunks, word_index, tf_idf_scores,
                   origin, found, save_error, ref_pc, ref_kb>>

Query == QueryOver(LifeQueries)

\* The caller has taken the value returned by the last call
Return ==
    /\ last # NoCall
    /\ last' = NoCall
    /\ UNCHANGED <<text_file, index_file, pc, chunks, word_index, tf_idf_scores,
                   origin, found, save_error, ref_pc, ref_kb>>

\* The process ends (also in the middle of a save) and main() runs again
Restart ==
    /\ pc \in {"save_dump", "ready", "raised"}
    /\ pc' = "new"
    /\ SetMemory(Blank)
    /\ origin' = "none"
    /\ found' = "none"
    /\ save_error' = FALSE
    /\ last' = IF last.who = "basic" THEN NoCall ELSE last
    /\ UNCHANGED <<text_file, index_file, ref_pc, ref_kb>>

-----------------------------------------------------------------------------
(* RAGReferenceSystem                                                      *)

\* _load_knowledge_base: no try; ok is FALSE when an exception leaves it
load_knowledge_base(file) ==
    IF file.kind # "json" THEN [ok |-> FALSE, m |-> Blank]     \* not found, json.load
    ELSE IF ~(Fields \subseteq DOMAIN file.data) THEN [ok |-> FALSE, m |-> Blank]
    ELSE IF file.data["word_index"].t # "dict" THEN [ok |-> FALSE, m |-> Blank]
    ELSE IF file.data["chunks"].t = "num" THEN [ok |-> FALSE, m |-> Blank]
    ELSE [ok |-> TRUE,
          m |-> [chunks |-> file.data["chunks"],
                 word_index |-> Val("dict", [t \in DOMAIN file.data["word_index"].v |->
                                               Range(file.data["word_index"].v[t])]),
                 tf_idf_scores |-> file.data["tf_idf_scores"]]]

RefConstruct ==
    /\ ref_pc = "new"
    /\ LET r == load_knowledge_base(index_file)
       IN  /\ ref_kb' = r.m
           /\ ref_pc' = IF r.ok THEN "ready" ELSE "raised"
    /\ UNCHANGED <<text_file, index_file, pc, chunks, word_index, tf_idf_scores,
                   origin, found, save_error, last>>

RefRetrieveOver(Q) ==
    /\ ref_pc = "ready"
    /\ last = NoCall
    /\ \E q \in Q, k \in TopKs :
          last' = [who |-> "ref", op |-> "search", query |-> q, top_k |-> k,
                   out |-> document_retrieval(ref_kb, q, k)]
    /\ UNCHANGED <<text_file, index_file, pc, chunks, word_index, tf_idf_scores,
                   origin, found, save_error, ref_pc, ref_kb>>

RefRetrieve == RefRetrieveOver(LifeQueries)

RefRestart ==
    /\ ref_pc \in {"ready", "raised"}
    /\ ref_pc' = "new"
    /\ ref_kb' = Blank
    /\ last' = IF last.who = "ref" THEN NoCall ELSE last
    /\ UNCHANGED <<text_file, index_file, pc, chunks, word_index, tf_idf_scores,
                   origin, found, save_error>>

-----------------------------------------------------------------------------

Next ==
    \/ Construct
    \/ SaveOpen
    \/ SaveOpenFail
    \/ SaveDump
    \/ SaveDumpFail
    \/ Search
    \/ Query
    \/ Return
    \/ Restart
    \/ RefConstruct
    \/ RefRetrieve
    \/ RefRestart

Spec == Init /\ [][Next]_vars

-----------------------------------------------------------------------------
(* Runs of BasicRAGSystem with the corpus file rewritten between two runs  *)

RunCorpora == SeqsUpTo(Docs, 1, MaxRunDocs)

InitRuns ==
    /\ text_file \in {TextFile(c) : c \in RunCorpora}
    /\ index_file = Absent
    /\ pc = "new"
    /\ chunks = Blank.chunks
    /\ word_index = Blank.word_index
    /\ tf_idf_scores = Blank.tf_idf_scores
    /\ origin = "none"
    /\ found = "none"
    /\ save_error = FALSE
    /\ last = NoCall
    /\ ref_pc = "new"
    /\ ref_kb = Blank

\* combined_text.txt gets another content while no engine is running
ChangeCorpus ==
    /\ pc = "new"
    /\ text_file' \in {TextFile(c) : c \in RunCorpora} \ {text_file}
    /\ UNCHANGED <<index_file, pc, chunks, word_index, tf_idf_scores, origin, found,
                   save_error, last, ref_pc, ref_kb>>

NextRuns ==
    \/ Construct
    \/ SaveOpen
    \/ SaveOpenFail
    \/ SaveDump
    \/ SaveDumpFail
    \/ Restart
    \/ ChangeCorpus

SpecRuns == InitRuns /\ [][NextRuns]_vars

-----------------------------------------------------------------------------
(* Retrieval on a built index: both engines constructed, the snapshot saved *)

InitSearch ==
    /\ text_file \in {TextFile(c) : c \in SearchCorpora}
    /\ index_file = Json(JsonDump(Built(text_file.text)))
    /\ pc = "ready"
    /\ chunks = Built(text_file.text).chunks
    /\ word_index = Built(text_file.text).word_index
    /\ tf_idf_scores = Built(text_file.text).tf_idf_scores
    /\ origin = "built"
    /\ found = "absent"
    /\ save_error = FALSE
    /\ last = NoCall
    /\ ref_pc = "ready"
    /\ ref_kb = load_knowledge_base(index_file).m

NextSearch ==
    \/ SearchOver(Queries)
    \/ QueryOver(Queries)
    \/ RefRetrieveOver(Queries)
    \/ Return

SpecSearch == InitSearch /\ [][NextSearch]_vars

\* Queries that repeat a term next to another one
RepeatQueries == SeqsUpTo({"alpha", "beta"}, 1, MaxRepeatQueryLen)

NextRepeat ==
    \/ SearchOver(RepeatQueries)
    \/ RefRetrieveOver(RepeatQueries)
    \/ Return

SpecRepeat == InitSearch /\ [][NextRepeat]_vars

\* Retrieval with the walk of every posting set left open
SearchInOrder ==
    /\ pc = "ready"
    /\ last = NoCall
    /\ \E q \in Queries, k \in TopKs, order \in Orders(Memory) :
          last' = [who |-> "basic", op |-> "search", query |-> q, top_k |-> k,
                   out |-> RetrieveIn(Memory, q, k, "int", order)]
    /\ UNCHANGED <<text_file, index_file, pc, chunks, word_index, tf_idf_scores,
                   origin, found, save_error, ref_pc, ref_kb>>

RefRetrieveInOrder ==
    /\ ref_pc = "ready"
    /\ last = NoCall
    /\ \E q \in Queries, k \in TopKs, order \in Orders(ref_kb) :
          last' = [who |-> "ref", op |-> "search", query |-> q, top_k |-> k,
                   out |-> RetrieveIn(ref_kb, q, k, "str", order)]
    /\ UNCHANGED <<text_file, index_file, pc, chunks, word_index, tf_idf_scores,
                   origin, found, save_error, ref_pc, ref_kb>>

NextOrder ==
    \/ SearchInOrder
    \/ RefRetrieveInOrder
    \/ Return

SpecOrder == InitSearch /\ [][NextOrder]_vars

-----------------------------------------------------------------------------
(* Answers on a built index: query of both engines, retrieval and rerank    *)

\* Documents of one line: one sentence of 199, 102 or 500 characters, two
\* sentences of 199 and 102 characters, two sentences of 12 and 400
AnswerDocs ==
    {<<<<<<"alpha", "alpha">>>>>>,
     <<<<<<"of", "alpha">>>>>>,
     <<<<<<"long400", "alpha">>>>>>,
     <<<<<<"beta", "beta">>, <<"of", "alpha">>>>>>,
     <<<<<<"word12">>, <<"long400">>>>>>}
AnswerCorpora == SeqsUpTo(AnswerDocs, 1, MaxAnswerDocs)
AnswerTokens == {"alpha", "beta", "of", "word12"}
AnswerQueries == SeqsUpTo(AnswerTokens, 0, MaxAnswerQueryLen)

InitAnswer ==
    /\ text_file \in {TextFile(c) : c \in AnswerCorpora}
    /\ index_file = Json(JsonDump(Built(text_file.text)))
    /\ pc = "ready"
    /\ chunks = Built(text_file.text).chunks
    /\ word_index = Built(text_file.text).word_index
    /\ tf_idf_scores = Built(text_file.text).tf_idf_scores
    /\ origin = "built"
    /\ found = "absent"
    /\ save_error = FALSE
    /\ last = NoCall
    /\ ref_pc = "ready"
    /\ ref_kb = load_knowledge_base(index_file).m

\* A call of RAGReferenceSystem.query with a query of Q
RefQueryOver(Q) ==
    /\ ref_pc = "ready"
    /\ last = NoCall
    /\ \E q \in Q :
          last' = [who |-> "ref", op |-> "query", query |-> q, top_k |-> RefTopK,
                   out |-> ref_query(ref_kb, q)]
    /\ UNCHANGED <<text_file, index_file, pc, chunks, word_index, tf_idf_scores,
                   origin, found, save_error, ref_pc, ref_kb>>

\* The mutant writes the share of the stored weight that enters the new score
\* back into tf_idf_scores.
RefRerankStored ==
    /\ ref_pc = "ready"
    /\ last.who = "ref" /\ last.op = "search" /\ ~last.out.raised
    /\ last' = [last EXCEPT !.op = "rerank",
                            !.out = [raised |-> FALSE,
                                     results |-> reranking_and_relevance(last.query,
                                                                         last.out.results),
                                     docs |-> reranking_and_relevance(last.query,
                                                                      last.out.results),
                                     base |-> last.out.results]]
    /\ ref_kb' = [ref_kb EXCEPT !.tf_idf_scores.v =
                      [k \in DOMAIN @ |->
                          [w \in DOMAIN @[k] |-> Rat(@[k][w].n * TfIdfShare, @[k][w].d * 10)]]]
    /\ UNCHANGED <<text_file, index_file, pc, chunks, word_index, tf_idf_scores,
                   origin, found, save_error, ref_pc>>

\* The mutant reranks a copy of the list and of its records: the list of the
\* caller stays as document_retrieval returned it.
RefRerankCopy ==
    /\ ref_pc = "ready"
    /\ last.who = "ref" /\ last.op = "search" /\ ~last.out.raised
    /\ last' = [last EXCEPT !.op = "rerank",
                            !.out = [raised |-> FALSE,
                                     results |-> reranking_and_relevance(last.query,
                                                                         last.out.results),
                                     docs |-> last.out.results,
                                     base |-> last.out.results]]
    /\ UNCHANGED <<text_file, index_file, pc, chunks, word_index, tf_idf_scores,
                   origin, found, save_error, ref_pc, ref_kb>>

\* reranking_and_relevance applied to the list document_retrieval returned:
\* it assigns relevance_score of the RetrievalResult objects of the list and
\* sorts the list; no attribute of the engine is assigned.  results is the
\* value returned and docs the list retrieved_docs of the caller after the
\* call, one object; base keeps what document_retrieval had returned.
RefRerank ==
    /\ ref_pc = "ready"
    /\ last.who = "ref" /\ last.op = "search" /\ ~last.out.raised
    /\ last' = [last EXCEPT !.op = "rerank",
                            !.out = [raised |-> FALSE,
                                     results |-> reranking_and_relevance(last.query,
                                                                         last.out.results),
                                     docs |-> reranking_and_relevance(last.query,
                                                                      last.out.results),
                                     base |-> last.out.results]]
    /\ UNCHANGED <<text_file, index_file, pc, chunks, word_index, tf_idf_scores,
                   origin, found, save_error, ref_pc, ref_kb>>

\* reranking_and_relevance applied once more to the list it has reranked;
\* once keeps what the first call left in the list.
RefRerankAgain ==
    /\ ref_pc = "ready"
    /\ last.who = "ref" /\ last.op = "rerank"
    /\ last' = [last EXCEPT !.op = "rerank2",
                            !.out = [raised |-> FALSE,
                                     results |-> reranking_and_relevance(last.query,
                                                                         last.out.docs),
                                     docs |-> reranking_and_relevance(last.query,
                                                                      last.out.docs),
                                     base |-> last.out.base,
                                     once |-> last.out.docs]]
    /\ UNCHANGED <<text_file, index_file, pc, chunks, word_index, tf_idf_scores,
                   origin, found, save_error, ref_pc, ref_kb>>

NextAnswer ==
    \/ QueryOver(AnswerQueries)
    \/ RefQueryOver(AnswerQueries)
    \/ RefRetrieveOver(AnswerQueries)
    \/ RefRerank
    \/ Return

SpecAnswer == InitAnswer /\ [][NextAnswer]_vars

\* The rerank applied twice, on documents of at most 500 characters (two
\* length penalties in a row give scores beyond the integers of TLC)
TwiceDocs == {doc \in AnswerDocs : ~(DocLen(doc) > LongTextLen)}
TwiceCorpora == SeqsUpTo(TwiceDocs, 1, MaxTwiceDocs)

InitTwice ==
    /\ text_file \in {TextFile(c) : c \in TwiceCorpora}
    /\ index_file = Json(JsonDump(Built(text_file.text)))
    /\ pc = "ready"
    /\ chunks = Built(text_file.text).chunks
    /\ word_index = Built(text_file.text).word_index
    /\ tf_idf_scores = Built(text_file.text).tf_idf_scores
    /\ origin = "built"
    /\ found = "absent"
    /\ save_error = FALSE
    /\ last = NoCall
    /\ ref_pc = "ready"
    /\ ref_kb = load_knowledge_base(index_file).m

NextTwice ==
    \/ RefRetrieveOver(AnswerQueries)
    \/ RefRerank
    \/ RefRerankAgain
    \/ Return

SpecTwice == InitTwice /\ [][NextTwice]_vars

-----------------------------------------------------------------------------
(* Building again: create_index called on a constructed engine              *)

\* rag.create_index() on the constructed engine, up to save_index.  origin
\* tells where the working set comes from: "rebuilt" is a build on top of a
\* build, "partial" what an exception out of create_index left behind.
Rebuild ==
    /\ pc = "ready"
    /\ last = NoCall
    /\ LET c == create_index(text_file.text, Memory)
       IN  /\ SetMemory(c.m)
           /\ origin' = IF c.raised THEN "partial"
                         ELSE IF origin = "loaded" THEN "built" ELSE "rebuilt"
           /\ pc' = IF c.raised THEN "raised" ELSE "save_open"
    /\ UNCHANGED <<text_file, index_file, found, save_error, last, ref_pc, ref_kb>>

NextBuild ==
    \/ Construct
    \/ SaveOpen
    \/ SaveOpenFail
    \/ SaveDump
    \/ SaveDumpFail
    \/ Rebuild

SpecBuild == Init /\ [][NextBuild]_vars

-----------------------------------------------------------------------------
(* The serving loops: interactive_mode of both engines                     *)

\* interactive_mode is called on the constructed engine
EnterLoop ==
    /\ pc = "ready"
    /\ last = NoCall
    /\ pc' = "serving"
    /\ UNCHANGED <<text_file, index_file, chunks, word_index, tf_idf_scores,
                   origin, found, save_error, last, ref_pc, ref_kb>>

\* The mutant has no `except Exception`: an error of query leaves the loop.
AskOverFatal(Q) ==
    /\ pc = "serving"
    /\ last = NoCall
    /\ \E q \in Q :
          /\ last' = IF q = <<>> THEN NoCall
                      ELSE [who |-> "basic", op |-> "ask", query |-> q, top_k |-> QueryTopK,
                            out |-> query(Memory, q)]
          /\ pc' = IF q # <<>> /\ query(Memory, q).raised THEN "done" ELSE "serving"
    /\ UNCHANGED <<text_file, index_file, chunks, word_index, tf_idf_scores,
                   origin, found, save_error, ref_pc, ref_kb>>

\* One pass of the loop with a question of Q: an empty line goes on to the
\* next pass; self.query(question) runs inside the try, its answer is printed,
\* an Exception is printed by the handler; the loop goes on in every case.
AskOver(Q) ==
    /\ pc = "serving"
    /\ last = NoCall
    /\ \E q \in Q :
          last' = IF q = <<>> THEN NoCall
                  ELSE [who |-> "basic", op |-> "ask", query |-> q, top_k |-> QueryTopK,
                        out |-> query(Memory, q)]
    /\ pc' = "serving"
    /\ UNCHANGED <<text_file, index_file, chunks, word_index, tf_idf_scores,
                   origin, found, save_error, ref_pc, ref_kb>>

\* One pass of the loop with 'stats': len(self.chunks) and len(self.word_index)
\* raise a TypeError on a number, which the handler prints
Stats ==
    /\ pc = "serving"
    /\ last = NoCall
    /\ last' = [who |-> "basic", op |-> "stats", query |-> <<>>, top_k |-> 0,
                out |-> [raised |-> chunks.t = "num" \/ word_index.t = "num"]]
    /\ pc' = "serving"
    /\ UNCHANGED <<text_file, index_file, chunks, word_index, tf_idf_scores,
                   origin, found, save_error, ref_pc, ref_kb>>

\* One pass of the loop with 'quit', 'exit' or 'q', or a KeyboardInterrupt
\* while input() waits: break
Quit ==
    /\ pc = "serving"
    /\ last = NoCall
    /\ pc' = "done"
    /\ UNCHANGED <<text_file, index_file, chunks, word_index, tf_idf_scores,
                   origin, found, save_error, last, ref_pc, ref_kb>>

RefEnterLoop ==
    /\ ref_pc = "ready"
    /\ last = NoCall
    /\ ref_pc' = "serving"
    /\ UNCHANGED <<text_file, index_file, pc, chunks, word_index, tf_idf_scores,
                   origin, found, save_error, last, ref_kb>>

\* One pass of the loop of RAGReferenceSystem with a query of Q
RefAskOver(Q) ==
    /\ ref_pc = "serving"
    /\ last = NoCall
    /\ \E q \in Q :
          last' = IF q = <<>> THEN NoCall
                  ELSE [who |-> "ref", op |-> "ask", query |-> q, top_k |-> RefTopK,
                        out |-> ref_query(ref_kb, q)]
    /\ ref_pc' = "serving"
    /\ UNCHANGED <<text_file, index_file, pc, chunks, word_index, tf_idf_scores,
                   origin, found, save_error, ref_kb>>

RefQuit ==
    /\ ref_pc = "serving"
    /\ last = NoCall
    /\ ref_pc' = "done"
    /\ UNCHANGED <<text_file, index_file, pc, chunks, word_index, tf_idf_scores,
                   origin, found, save_error, last, ref_kb>>

NextServe ==
    \/ Construct
    \/ SaveOpen
    \/ SaveOpenFail
    \/ SaveDump
    \/ SaveDumpFail
    \/ EnterLoop
    \/ AskOver(LifeQueries)
    \/ Stats
    \/ Quit
    \/ Return
    \/ RefConstruct
    \/ RefEnterLoop
    \/ RefAskOver(LifeQueries)
    \/ RefQuit

SpecServe == Init /\ [][NextServe]_vars

-----------------------------------------------------------------------------
(* Serving from a snapshot whose passage list lacks a record                *)

\* The snapshot of a corpus without the last record of "chunks": the index and
\* the weights refer to a passage id that has no record
Inconsistent(text) ==
    LET good == JsonDump(Built(text))
    IN  Json([good EXCEPT !["chunks"] = Val("list", SubSeq(@.v, 1, Len(@.v) - 1))])

InitInconsistent ==
    /\ text_file \in {TextFile(c) : c \in {d \in Corpora : Built(d).chunks.v # <<>>}}
    /\ index_file = Inconsistent(text_file.text)
    /\ pc = "new"
    /\ chunks = Blank.chunks
    /\ word_index = Blank.word_index
    /\ tf_idf_scores = Blank.tf_idf_scores
    /\ origin = "none"
    /\ found = "none"
    /\ save_error = FALSE
    /\ last = NoCall
    /\ ref_pc = "new"
    /\ ref_kb = Blank

NextInconsistent ==
    \/ Construct
    \/ EnterLoop
    \/ AskOver(LifeQueries)
    \/ Stats
    \/ Quit
    \/ Return
    \/ RefConstruct
    \/ RefEnterLoop
    \/ RefAskOver(LifeQueries)
    \/ RefQuit

SpecInconsistent == InitInconsistent /\ [][NextInconsistent]_vars

-----------------------------------------------------------------------------
(* Segmentation alone: intelligent_chunking applied to a corpus            *)

\* Sentences of 2, 99, 400 and 801 characters
SegTokens == {"of", "alpha", "long400", "long801"}
SegDocs == {<<>>} \cup {<<line>> : line \in SeqsUpTo({<<t>> : t \in SegTokens}, 1, MaxSegSents)}
SegCorpora == SeqsUpTo(SegDocs, 1, MaxSegDocs)

InitSeg ==
    /\ text_file \in {TextFile(c) : c \in SegCorpora}
    /\ index_file = Absent
    /\ pc = "seg_new"
    /\ chunks = Blank.chunks
    /\ word_index = Blank.word_index
    /\ tf_idf_scores = Blank.tf_idf_scores
    /\ origin = "none"
    /\ found = "none"
    /\ save_error = FALSE
    /\ last = NoCall
    /\ ref_pc = "new"
    /\ ref_kb = Blank

\* self.chunks = self.intelligent_chunking(text_content)
Segment ==
    /\ pc = "seg_new"
    /\ chunks' = Val("list", intelligent_chunking(text_file.text))
    /\ pc' = "seg_done"
    /\ UNCHANGED <<text_file, index_file, word_index, tf_idf_scores, origin,
                   found, save_error, last, ref_pc, ref_kb>>

NextSeg == Segment

SpecSeg == InitSeg /\ [][NextSeg]_vars

\* Documents of several lines: an empty line, a line of 3 characters, a line
\* of 13, a line of 200 and an address of 21 characters.
TitleDocLines == {<<>>, <<<<"of">>>>, <<<<"word12">>>>, <<<<"alpha", "alpha">>>>,
                  <<<<"http20">>>>}
TitleDocs == SeqsUpTo(TitleDocLines, 1, MaxTitleDocLines)

InitTitle ==
    /\ text_file \in {TextFile(<<doc>>) : doc \in TitleDocs}
    /\ index_file = Absent
    /\ pc = "seg_new"
    /\ chunks = Blank.chunks
    /\ word_index = Blank.word_index
    /\ tf_idf_scores = Blank.tf_idf_scores
    /\ origin = "none"
    /\ found = "none"
    /\ save_error = FALSE
    /\ last = NoCall
    /\ ref_pc = "new"
    /\ ref_kb = Blank

SpecTitle == InitTitle /\ [][Segment]_vars

\* Documents of one line around the cap: sentences of 397, 398, 400 and 800
\* characters
CapDocs ==
    {<<line>> : line \in SeqsUpTo({<<t>> : t \in {"long397", "long398", "long400",
                                                   "long800"}}, 1, MaxCapSents)}

InitCap ==
    /\ text_file \in {TextFile(<<doc>>) : doc \in CapDocs}
    /\ index_file = Absent
    /\ pc = "seg_new"
    /\ chunks = Blank.chunks
    /\ word_index = Blank.word_index
    /\ tf_idf_scores = Blank.tf_idf_scores
    /\ origin = "none"
    /\ found = "none"
    /\ save_error = FALSE
    /\ last = NoCall
    /\ ref_pc = "new"
    /\ ref_kb = Blank

SpecCap == InitCap /\ [][Segment]_vars

-----------------------------------------------------------------------------
(* Claims                                                                  *)

\* C10: after a segmentation every passage has trimmed text length > 100,
\* and no passage comes from a document whose trimmed length is below 100.
SegmentationBounds ==
    pc = "seg_done" =>
        /\ \A i \in 1..Len(chunks.v) : StrippedLen(chunks.v[i].text) > MinChunkLen
        /\ \A d \in 1..Len(text_file.text) :
              DocLen(text_file.text[d]) < MinDocLen =>
                  \A i \in 1..Len(chunks.v) : chunks.v[i].paper_id # d - 1

\* C10 witness: a short first document contributed nothing and the second
\* document gave one passage closed at the size cap and one flushed at its end.
SegmentationBoundsWitness ==
    /\ pc = "seg_done"
    /\ Len(text_file.text) = 2
    /\ text_file.text[1] # <<>>
    /\ DocLen(text_file.text[1]) < MinDocLen
    /\ Len(chunks.v) = 2
    /\ chunks.v[1].paper_id = 1
    /\ chunks.v[2].paper_id = 1


\* The score search accumulates for the passage id under a query (0.0 when the
\* passage gets no entry in chunk_scores)
ScoreOf(m, q, id) ==
    LET cs == ChunkScores(m, q, "int")
    IN  IF \E i \in 1..Len(cs) : cs[i][1] = id
        THEN cs[CHOOSE i \in 1..Len(cs) : cs[i][1] = id][2]
        ELSE Zero

\* The query has a token whose normalized form is longer than 2 characters
Survives(tok) == TermLen(clean_word(tok)) > MinTermLen
SurvivingTerms(q) == {clean_word(q[i]) : i \in {j \in 1..Len(q) : Survives(q[j])}}

\* The passages that contain at least one surviving term of the query
Matching(chunk_list, q) ==
    {i \in 1..Len(chunk_list) :
        \E j \in 1..Len(Flatten(chunk_list[i].text)) :
            clean_word(Flatten(chunk_list[i].text)[j]) \in SurvivingTerms(q)}

\* Python's ==: a defaultdict equals a dict with the same items
PyEqual(a, b) ==
    /\ a.t = b.t \/ {a.t, b.t} = {"dict", "defaultdict"}
    /\ a.v = b.v

EqualWorkingSet(m1, m2) ==
    /\ PyEqual(m1.chunks, m2.chunks)
    /\ PyEqual(m1.word_index, m2.word_index)
    /\ PyEqual(m1.tf_idf_scores, m2.tf_idf_scores)

BuiltHere == Built(text_file.text)
SnapshotHere == Json(JsonDump(BuiltHere))

\* C1: an engine loaded from the snapshot that save_index wrote for the corpus
\* has the passage count, the weights of every passage id and the search
\* results of the engine that built it.
RoundTripPersistence ==
    (pc = "ready" /\ origin = "loaded" /\ index_file = SnapshotHere) =>
        /\ Len(chunks.v) = Len(BuiltHere.chunks.v)
        /\ \A i \in 1..Len(chunks.v) :
              /\ PyInt(chunks.v[i].id) \in DOMAIN tf_idf_scores.v
              /\ tf_idf_scores.v[PyInt(chunks.v[i].id)]
                    = BuiltHere.tf_idf_scores.v[PyInt(chunks.v[i].id)]
        /\ \A q \in LifeQueries, k \in TopKs :
              search(Memory, q, k) = search(BuiltHere, q, k)

\* C2: a run that finds valid JSON with a field missing or of a wrong type
\* does not raise and ends with the working set of a full rebuild.
MalformedTreatedAsAbsent ==
    found = "malformed" =>
        /\ pc # "raised"
        /\ pc \in {"save_open", "save_dump", "ready"} => EqualWorkingSet(Memory, BuiltHere)

\* C3: a run that finds no snapshot file, or one that is not parseable, does
\* not raise, rebuilds the working set from the corpus, saves it (the file is
\* the new snapshot once the save has ended without a write error) and is
\* then ready.
AbsentOrUnparseableRebuilds ==
    found \in {"absent", "unparseable"} =>
        /\ pc \in {"save_open", "save_dump", "ready"}
        /\ origin = "built"
        /\ Memory = BuiltHere
        /\ (pc = "ready" /\ ~save_error) => index_file = SnapshotHere

\* C3 witness: the run found an unparseable file and is ready on a rebuilt,
\* saved, non-empty index.
AbsentOrUnparseableRebuildsWitness ==
    /\ found = "unparseable"
    /\ pc = "ready"
    /\ ~save_error
    /\ index_file = SnapshotHere
    /\ DOMAIN word_index.v # {}

\* C4: during a save and after it, also after a failed one, the snapshot file
\* is never a partially written one (unless it already was before this run).
SaveAllOrNothing ==
    (found # "unparseable" /\ pc \in {"save_dump", "ready"}) => index_file.kind # "partial"

\* C5: after save_index has reported a failure the constructor has completed,
\* the working set is the one that was built, and a search is answered from it.
SaveFailureNotFatal ==
    save_error =>
        /\ pc = "ready"
        /\ origin = "built"
        /\ EqualWorkingSet(Memory, BuiltHere)
        /\ (last.who = "basic" /\ last.op = "search") =>
              last.out = search(BuiltHere, last.query, last.top_k)

\* C5 witness: the write failed, the file is left partial, and a search has
\* returned a passage.
SaveFailureNotFatalWitness ==
    /\ save_error
    /\ index_file.kind = "partial"
    /\ last.who = "basic"
    /\ last.op = "search"
    /\ ~last.out.raised
    /\ last.out.results # <<>>

Scores(results) == [i \in 1..Len(results) |-> results[i].score]
NonIncreasing(sc) == \A i \in 1..(Len(sc) - 1) : RatLeq(sc[i + 1], sc[i])

\* C6: on a built index search(q, k) and document_retrieval(q, k) return
\* exactly min(k, M) results, M the number of passages that contain a surviving
\* query term, with non-increasing scores.
TopKContract ==
    last.op = "search" =>
        /\ ~last.out.raised
        /\ Len(last.out.results)
              = Min(last.top_k, Cardinality(Matching(chunks.v, last.query)))
        /\ NonIncreasing(Scores(last.out.results))

\* C6 witness: more passages match than top_k allows, and the two returned
\* have different scores.
TopKContractWitness ==
    /\ last.who = "basic"
    /\ last.op = "search"
    /\ last.top_k = 2
    /\ Cardinality(Matching(chunks.v, last.query)) = 3
    /\ Len(last.out.results) = 2
    /\ RatLess(last.out.results[2].score, last.out.results[1].score)

\* C7: of two returned passages with equal score the one with the smaller id
\* comes first, and a passage left out by the cut with the score of a returned
\* one has a larger id.
TieBreakById ==
    last.op = "search" =>
        /\ \A i, j \in 1..Len(last.out.results) :
              (i < j /\ last.out.results[i].score = last.out.results[j].score)
                  => last.out.results[i].chunk.id < last.out.results[j].chunk.id
        /\ \A i \in 1..Len(last.out.results), c \in Matching(chunks.v, last.query) :
              (/\ \A j \in 1..Len(last.out.results) :
                     last.out.results[j].chunk.id # chunks.v[c].id
               /\ ScoreOf(Memory, last.query, chunks.v[c].id) = last.out.results[i].score)
                  => last.out.results[i].chunk.id < chunks.v[c].id

\* C8: a query without a surviving term, or whose surviving terms are all
\* absent from the index, is answered without an exception: search returns the
\* empty list, query the nothing-found answer and no sources.
EmptyQueryNotError ==
    (/\ last.who = "basic"
     /\ \A t \in SurvivingTerms(last.query) : t \notin DOMAIN word_index.v) =>
        /\ ~last.out.raised
        /\ last.op = "search" => last.out.results = <<>>
        /\ last.op = "query" => (last.out.answer = NothingFound /\ last.out.sources = <<>>)

\* C8 witness: query() was called with a term that survives and is not indexed,
\* on an engine whose index is not empty.
EmptyQueryNotErrorWitness ==
    /\ last.who = "basic"
    /\ last.op = "query"
    /\ SurvivingTerms(last.query) # {}
    /\ \A t \in SurvivingTerms(last.query) : t \notin DOMAIN word_index.v
    /\ DOMAIN word_index.v # {}
    /\ last.out.answer = NothingFound

\* C9: on a built index the score a passage accumulates for the query extended
\* with one more term is at least its score for the query, and every passage
\* search returns contains a surviving term of the query.
ScoreMonotonicity ==
    (last.who = "basic" /\ last.op = "search") =>
        /\ \A t \in QueryTokens :
              \A cs \in {ChunkScores(Memory, last.query, "int")},
                 more \in {ChunkScores(Memory, Append(last.query, t), "int")} :
                  \A i \in 1..Len(chunks.v) :
                      RatLeq(IF \E k \in 1..Len(cs) : cs[k][1] = chunks.v[i].id
                             THEN cs[CHOOSE k \in 1..Len(cs) : cs[k][1] = chunks.v[i].id][2]
                             ELSE Zero,
                             IF \E k \in 1..Len(more) : more[k][1] = chunks.v[i].id
                             THEN more[CHOOSE k \in 1..Len(more) :
                                          more[k][1] = chunks.v[i].id][2]
                             ELSE Zero)
        /\ \A i \in 1..Len(last.out.results) :
              \E c \in Matching(chunks.v, last.query) :
                  chunks.v[c].id = last.out.results[i].chunk.id

\* C9 witness: a returned passage whose score grows when a term is added, next
\* to a passage that contains no surviving term of the query and is not returned.
ScoreMonotonicityWitness ==
    /\ last.who = "basic"
    /\ last.op = "search"
    /\ \E i \in 1..Len(last.out.results), t \in QueryTokens :
          RatLess(last.out.results[i].score,
                  ScoreOf(Memory, Append(last.query, t), last.out.results[i].chunk.id))
    /\ \E c \in 1..Len(chunks.v) :
          /\ c \notin Matching(chunks.v, last.query)
          /\ \A i \in 1..Len(last.out.results) :
                last.out.results[i].chunk.id # chunks.v[c].id

RECURSIVE IsSubseq(_, _)
\* a is b with some elements left out
IsSubseq(a, b) ==
    IF a = <<>> THEN TRUE
    ELSE IF b = <<>> THEN FALSE
    ELSE IF Head(a) = Head(b) THEN IsSubseq(Tail(a), Tail(b))
    ELSE IsSubseq(a, Tail(b))

\* The sentences of the passages of document d (0-based), in list order
PaperSentences(chunk_list, d) ==
    Flatten([i \in 1..Len(chunk_list) |->
                IF chunk_list[i].paper_id = d THEN chunk_list[i].text ELSE <<>>])

\* C11: after a segmentation the passage at list position i has id i - 1 (so
\* the ids are 0..n-1 without gap or repeat), the document numbers do not
\* decrease along the list, and the sentences of the passages of one document
\* follow each other as they do in the document.
ContiguousIds ==
    pc = "seg_done" =>
        /\ \A i \in 1..Len(chunks.v) : chunks.v[i].id = i - 1
        /\ \A i, j \in 1..Len(chunks.v) :
              i < j => chunks.v[i].paper_id <= chunks.v[j].paper_id
        /\ \A d \in 1..Len(text_file.text) :
              IsSubseq(PaperSentences(chunks.v, d - 1), DocSentences(text_file.text[d]))

\* C11 witness: the first document lost a fragment and kept one passage, the
\* second document gave two passages.
ContiguousIdsWitness ==
    /\ pc = "seg_done"
    /\ Len(text_file.text) = 2
    /\ Len(chunks.v) = 3
    /\ chunks.v[1].paper_id = 0
    /\ chunks.v[2].paper_id = 1
    /\ chunks.v[3].paper_id = 1
    /\ Len(PaperSentences(chunks.v, 0)) < Len(DocSentences(text_file.text[1]))

\* C12: a build made on top of a build leaves the passages, the inverted index
\* and the weight table that the first build of the corpus produced, and goes
\* on to the save.
IdempotentRebuild ==
    origin = "rebuilt" =>
        /\ pc \in {"save_open", "save_dump", "ready"}
        /\ EqualWorkingSet(Memory, BuiltHere)

\* C12 witness: an engine with two passages and a non-empty index has been
\* built twice and is ready.
IdempotentRebuildWitness ==
    /\ origin = "rebuilt"
    /\ pc = "ready"
    /\ Len(chunks.v) = 2
    /\ DOMAIN word_index.v # {}
    /\ \E k \in DOMAIN tf_idf_scores.v : DOMAIN tf_idf_scores.v[k] # {}

\* Every term a token can normalize to
Terms == {clean_word(tok) : tok \in Token}

\* C13: after a build, for every term t and passage p: p.id is in
\* word_index[t] iff t has a weight in tf_idf_scores[p.id] iff t is longer than
\* 2 characters and the normalization of a token of p.text; no posting set is
\* empty and every posting id is the id of a passage.
IndexConsistent ==
    (origin = "built" /\ pc \in {"save_open", "save_dump", "ready"}) =>
        /\ \A i \in 1..Len(chunks.v), t \in Terms \cup DOMAIN word_index.v :
              LET p == chunks.v[i]
                  posted == t \in DOMAIN word_index.v /\ p.id \in word_index.v[t]
                  weighted == /\ PyInt(p.id) \in DOMAIN tf_idf_scores.v
                              /\ t \in DOMAIN tf_idf_scores.v[PyInt(p.id)]
                  occurs == /\ TermLen(t) > MinTermLen
                            /\ \E j \in 1..Len(Flatten(p.text)) :
                                  clean_word(Flatten(p.text)[j]) = t
              IN  (posted <=> weighted) /\ (weighted <=> occurs)
        /\ \A k \in DOMAIN tf_idf_scores.v :
              /\ \E i \in 1..Len(chunks.v) : k = PyInt(chunks.v[i].id)
              /\ DOMAIN tf_idf_scores.v[k] \subseteq DOMAIN word_index.v
        /\ \A t \in DOMAIN word_index.v :
              /\ word_index.v[t] # {}
              /\ \A id \in word_index.v[t] :
                    \E i \in 1..Len(chunks.v) : chunks.v[i].id = id

\* C13 witness: a built index over two passages, one of them holding a short
\* word that is not indexed and a term that the other passage does not hold.
IndexConsistentWitness ==
    /\ origin = "built"
    /\ pc = "ready"
    /\ Len(chunks.v) = 2
    /\ "of" \in Range(Flatten(chunks.v[1].text))
    /\ "of" \notin DOMAIN word_index.v
    /\ \E t \in DOMAIN word_index.v : word_index.v[t] = {chunks.v[1].id}
    /\ \E t \in DOMAIN word_index.v : word_index.v[t] = {chunks.v[2].id}

\* What load_or_create_index assigns when it returns from the try block
LoadedHere == TryLoad(index_file, Blank)

\* C14: without a corpus file the constructor raises and nothing of a snapshot
\* is taken over; a constructor that raised left no engine; a constructed
\* engine has the working set of one build of the corpus or the three fields
\* of one load of the file; search and query only run on a constructed engine.
InitAllOrNothing ==
    /\ ~text_file.exists => (pc \in {"new", "raised"} /\ Memory = Blank /\ origin = "none")
    /\ pc = "raised" => (Memory = Blank /\ origin = "none")
    /\ pc \in {"save_open", "save_dump", "ready"} =>
          \/ origin = "built" /\ EqualWorkingSet(Memory, BuiltHere)
          \/ origin = "loaded" /\ LoadedHere.loaded /\ Memory = LoadedHere.m
    /\ last.who = "basic" => pc = "ready"

\* C14 witness: the corpus file is missing, a complete snapshot exists, and the
\* constructor has raised.
InitAllOrNothingWitness ==
    /\ pc = "raised"
    /\ ~text_file.exists
    /\ WellFormed(index_file)
    /\ index_file.data["chunks"].v # <<>>


\* C15: in the serving loop of either engine a step never changes the working
\* set, an error raised while answering a query leaves the loop running, and
\* the loop ends only by the quit step, taken when no answer is pending.
FailureConfined ==
    [][/\ pc = "serving" =>
             /\ Memory' = Memory
             /\ pc' \in {"serving", "done"}
             /\ pc' = "done" => (last = NoCall /\ last' = NoCall)
       /\ ref_pc = "serving" =>
             /\ ref_kb' = ref_kb
             /\ ref_pc' \in {"serving", "done"}
             /\ ref_pc' = "done" => (last = NoCall /\ last' = NoCall)]_vars

\* A query of the basic loop has raised on a loaded working set, the loop is
\* still serving it, and the reference loop is serving too
FailureConfinedWitness ==
    /\ pc = "serving"
    /\ ref_pc = "serving"
    /\ last.who = "basic" /\ last.op = "ask" /\ last.out.raised
    /\ Memory = LoadedHere.m


\* C16: after reranking_and_relevance has run on a list that
\* document_retrieval returned, the passages, the inverted index and the
\* weight table are those of the loaded snapshot, and document_retrieval with
\* the same query and top_k returns the same passages, scores and order again.
BaseRankingObtainable ==
    (last.who = "ref" /\ last.op = "rerank") =>
        /\ ref_kb = load_knowledge_base(index_file).m
        /\ document_retrieval(ref_kb, last.query, last.top_k)
               = [raised |-> FALSE, results |-> last.out.base]

\* C16 witness: the rerank has changed the scores and the order of two
\* documents whose base scores are not zero
BaseRankingObtainableWitness ==
    /\ last.who = "ref" /\ last.op = "rerank"
    /\ Len(last.out.base) = 2
    /\ last.out.base[1].score # Zero
    /\ last.out.results[1].chunk.id = last.out.base[2].chunk.id
    /\ last.out.results[1].score # last.out.base[2].score


\* C17: query of BasicRAGSystem does not raise and its answer is one of three:
\* the nothing-found string exactly when search returned nothing; the fallback
\* string with the question exactly when something was returned and no
\* sentence of the first three passages has 20 characters or more and a word
\* of the question; otherwise 1 to 3 bullet lines, each such a sentence.
ThreeOutcomes ==
    (last.who = "basic" /\ last.op = "query") =>
        LET results == search(Memory, last.query, QueryTopK).results
            answer == last.out.answer
            top == Take(results, AnswerChunks)
            texts == Flatten([i \in 1..Len(top) |-> top[i].chunk.text])
            qualifying == {texts[i] : i \in {j \in 1..Len(texts) :
                              /\ SentenceLen(texts[j]) >= MinSentenceLen
                              /\ WordSet(last.query) \cap WordSet(texts[j]) # {}}}
        IN  /\ ~last.out.raised
            /\ generate_answer(last.query, <<>>) = NothingFound
            /\ answer \in {NothingFound, Fallback(last.query)} \/ answer.kind = "bullets"
            /\ answer = NothingFound <=> results = <<>>
            /\ answer = Fallback(last.query) <=> (results # <<>> /\ qualifying = {})
            /\ answer.kind = "bullets" =>
                   /\ Len(answer.lines) \in 1..AnswerSentences
                   /\ \A i \in 1..Len(answer.lines) : answer.lines[i] \in qualifying

\* C17 witness: passages were found, their only sentence with a word of the
\* question is shorter than 20 characters, and the answer is the fallback
ThreeOutcomesWitness ==
    /\ last.who = "basic" /\ last.op = "query"
    /\ last.out.sources # <<>>
    /\ last.out.answer = Fallback(last.query)
    /\ \E i \in 1..Len(last.out.sources) : \E j \in 1..Len(last.out.sources[i].text) :
          WordSet(last.query) \cap WordSet(last.out.sources[i].text[j]) # {}


\* C18: every bullet line of an answer of either engine is a sentence of the
\* text of one of the first three passages the answer was made from, and
\* holds nothing of the prompt template, of a document header or of a title.
ExtractiveAnswer ==
    (last.op = "query" /\ ~last.out.raised) =>
        /\ (last.who = "basic" /\ last.out.answer.kind = "bullets") =>
               LET top == Take(last.out.sources, AnswerChunks)
                   texts == Flatten([i \in 1..Len(top) |-> top[i].text])
               IN  \A i \in 1..Len(last.out.answer.lines) :
                      last.out.answer.lines[i] \in Range(texts)
        /\ (last.who = "ref" /\ last.out.answer.kind = "ref_bullets") =>
               LET top == Take(last.out.documents, PromptDocs)
                   texts == Flatten([i \in 1..Len(top) |-> top[i].chunk.text])
               IN  \A i \in 1..Len(last.out.answer.lines) :
                      /\ last.out.answer.lines[i].kind = "text"
                      /\ ~last.out.answer.lines[i].glued
                      /\ last.out.answer.lines[i].sentence \in Range(texts)


\* C19: a query that differs from the query of the last call only in tokens
\* whose normalized form has at most 2 characters gives the same search
\* results and sources, the same reranked scores and order, and the same
\* answer sentences.
ShortTermsDiscarded ==
    \A q2 \in AnswerQueries :
        LET Long(q) == Select(q, {i \in 1..Len(q) : Indexable(clean_word(q[i]))})
        IN  (last.who # "none" /\ Long(q2) = Long(last.query)) =>
               /\ (last.who = "basic" /\ last.op = "query") =>
                      /\ last.out.sources = query(Memory, q2).sources
                      /\ last.out.answer.kind = query(Memory, q2).answer.kind
                      /\ last.out.answer.lines = query(Memory, q2).answer.lines
               /\ (last.who = "ref" /\ last.op = "search") =>
                      last.out = document_retrieval(ref_kb, q2, last.top_k)
               /\ (last.who = "ref" /\ last.op = "rerank") =>
                      last.out.results =
                          reranking_and_relevance(q2,
                              document_retrieval(ref_kb, q2, last.top_k).results)
               /\ (last.who = "ref" /\ last.op = "query") =>
                      last.out = ref_query(ref_kb, q2)


\* C20: on a built index of N passages every term with a weight occurs in at
\* least 1 and at most N passages, every weight is a non-negative number with
\* a positive denominator, it is 0 exactly when the term occurs in all N
\* passages, and every score that search or query returns is non-negative.
WeightsWellDefined ==
    LET N == Len(chunks.v)
        Df(t) == Cardinality({i \in 1..N : t \in WordSet(Flatten(chunks.v[i].text))})
    IN  /\ \A k \in DOMAIN tf_idf_scores.v : \A t \in DOMAIN tf_idf_scores.v[k] :
              /\ 1 <= Df(t) /\ Df(t) <= N
              /\ tf_idf_scores.v[k][t].d > 0
              /\ tf_idf_scores.v[k][t].n >= 0
              /\ tf_idf_scores.v[k][t].n = 0 <=> Df(t) = N
        /\ (last.who = "basic" /\ last.op = "search") =>
              /\ ~last.out.raised
              /\ \A i \in 1..Len(last.out.results) : RatLeq(Zero, last.out.results[i].score)
        /\ (last.who = "basic" /\ last.op = "query") =>
              /\ ~last.out.raised
              /\ \A i \in 1..Len(last.out.sources) : RatLeq(Zero, last.out.sources[i].score)

\* C20 witness: of three passages search returned one for a term that occurs
\* in all of them, with score 0, and another with a positive score
WeightsWellDefinedWitness ==
    /\ Len(chunks.v) = 3
    /\ last.who = "basic" /\ last.op = "search"
    /\ \E i, j \in 1..Len(last.out.results) :
          /\ last.out.results[i].score = Zero
          /\ RatLess(Zero, last.out.results[j].score)
    /\ \E t \in SurvivingTerms(last.query) :
          \A i \in 1..Len(chunks.v) : t \in WordSet(Flatten(chunks.v[i].text))


\* C21: the list reranking_and_relevance returns holds the results it was
\* given, none added and none dropped, each with the score
\* (0.7 * base + 0.2 * overlap / |query words| + 0.1 * 0.5 * title overlap)
\* times the penalty, which is 1 for a text of at most 500 characters and
\* 500 / len otherwise; the overlap ratio lies in [0, 1] and the scores do not
\* increase along the list.
RerankFormula ==
    (last.who = "ref" /\ last.op = "rerank") =>
        LET base == last.out.base
            new == last.out.results
            qw == WordSet(last.query)
            Q == Cardinality(qw)
        IN  /\ Len(new) = Len(base)
            /\ \A i \in 1..Len(base) :
                  \E j \in 1..Len(new) :
                     LET s == base[i].score
                         r == new[j].score
                         ov == Cardinality(qw \cap WordSet(Flatten(base[i].chunk.text)))
                         to == Cardinality(qw \cap TitleTerms(base[i].chunk.title))
                         L == StrippedLen(base[i].chunk.text)
                         blend == Rat(7 * s.n * Q + 2 * One * ov * s.d
                                         + TitleBonus * to * s.d * Q, 10 * s.d * Q)
                     IN  /\ new[j].chunk = base[i].chunk
                         /\ \A k \in 1..Len(new) : new[k].chunk.id = base[i].chunk.id => k = j
                         /\ Q > 0 /\ 0 <= ov /\ ov <= Q
                         /\ r = RatMul(blend, IF L > 500 THEN Rat(500, L) ELSE Rat(1, 1))
            /\ \A j \in 1..(Len(new) - 1) : RatLeq(new[j + 1].score, new[j].score)

\* C21 witness: two results were reranked, one of them with a text of more
\* than 500 characters, and the order of the two has changed
RerankFormulaWitness ==
    /\ last.who = "ref" /\ last.op = "rerank"
    /\ Len(last.out.base) = 2
    /\ \E i \in 1..2 : StrippedLen(last.out.base[i].chunk.text) > LongTextLen
    /\ last.out.results[1].chunk.id = last.out.base[2].chunk.id
    /\ RatLess(last.out.results[2].score, last.out.results[1].score)


InconsistencyFatal ==
    /\ (last.who = "ref" /\ last.op = "ask"
         /\ \E id \in {x[1] : x \in Range(Cut(SortByScore(
                        ChunkScores(ref_kb, last.query, "str"), <<>>), RefTopK))} :
                ~HasChunk(ref_kb, id))
           => (last.out.raised /\ ref_pc # "serving")
    /\ (last.who = "basic" /\ last.op = "ask"
         /\ \E id \in {x[1] : x \in Range(Cut(SortByScore(
                        ChunkScores(Memory, last.query, "int"), <<>>), QueryTopK))} :
                ~HasChunk(Memory, id))
           => (last.out.raised /\ pc # "serving")


TitleAmongNonEmptyLines ==
    pc = "seg_done" =>
        \A i \in 1..Len(chunks.v) :
            LET chunk == chunks.v[i]
                nonempty == SelectSeq(text_file.text[chunk.paper_id + 1],
                                      LAMBDA l : l # <<>>)
                first == Take(nonempty, TitleLines)
                good == {j \in 1..Len(first) :
                            LineLen(first[j]) > MinTitleLen /\ ~StartsWithHttp(first[j])}
            IN  /\ chunk.title.unknown = (good = {})
                /\ good # {} =>
                       LET j == CHOOSE g \in good : \A k \in good : g <= k
                       IN  /\ chunk.title.line = first[j]
                           /\ chunk.title.cut = (LineLen(first[j]) > MaxTitleLen)
                /\ \A k \in 1..Len(chunks.v) :
                       chunks.v[k].paper_id = chunk.paper_id =>
                           chunks.v[k].title = chunk.title

\* C26: a passage of two or more sentences has at most 800 characters; a
\* passage of more than 800 characters is one sentence of its document, whole,
\* that does not fit under the cap by itself.
SizeCap ==
    pc = "seg_done" =>
        \A i \in 1..Len(chunks.v) :
            LET chunk == chunks.v[i]
                doc == text_file.text[chunk.paper_id + 1]
            IN  /\ Len(chunk.text) >= 2 => StrippedLen(chunk.text) <= ChunkSize
                /\ StrippedLen(chunk.text) > ChunkSize =>
                       /\ Len(chunk.text) = 1
                       /\ ~(SentenceLen(chunk.text[1]) < ChunkSize)
                       /\ chunk.text[1] \in Range(DocSentences(doc))

\* One document yields a passage of two sentences with exactly 800 characters
\* and a passage of one sentence with more than 800.
SizeCapWitness ==
    /\ pc = "seg_done"
    /\ \E i \in 1..Len(chunks.v) :
           Len(chunks.v[i].text) = 2 /\ StrippedLen(chunks.v[i].text) = ChunkSize
    /\ \E i \in 1..Len(chunks.v) :
           Len(chunks.v[i].text) = 1 /\ StrippedLen(chunks.v[i].text) > ChunkSize

\* C27: whatever runs and changes of the corpus file came before, the working
\* set of a constructed engine is the full build of the corpus file as it is
\* now, kept in memory or read back from its own snapshot.
SnapshotNeverAuthoritative ==
    pc = "ready" =>
        \/ Memory = BuiltHere
        \/ Memory = TryLoad(Json(JsonDump(BuiltHere)), Blank).m

\* C28: the score of every passage returned by search or document_retrieval
\* is the sum, over the occurrences of the surviving terms in the query, of the
\* weight of the term in the passage: a term written n times counts n times.
PerOccurrence ==
    (last.op = "search" /\ ~last.out.raised) =>
        LET m == IF last.who = "basic" THEN Memory ELSE ref_kb
            key == IF last.who = "basic" THEN "int" ELSE "str"
            cleaned == [i \in 1..Len(last.query) |-> clean_word(last.query[i])]
            words == Select(cleaned, {i \in 1..Len(cleaned) : Indexable(cleaned[i])})
            TermWeight(id, w) ==
                IF /\ w \in DOMAIN m.word_index.v
                   /\ id \in m.word_index.v[w]
                   /\ <<key, id>> \in DOMAIN m.tf_idf_scores.v
                   /\ w \in DOMAIN m.tf_idf_scores.v[<<key, id>>]
                THEN m.tf_idf_scores.v[<<key, id>>][w] ELSE Zero
            RECURSIVE Total(_, _)
            Total(id, n) ==
                IF n = 0 THEN Zero ELSE RatAdd(Total(id, n - 1), TermWeight(id, words[n]))
        IN  \A i \in 1..Len(last.out.results) :
                last.out.results[i].score = Total(last.out.results[i].chunk.id, Len(words))

\* A query that repeats a term ranks the passages in another order than the
\* query with every term written once.
PerOccurrenceWitness ==
    /\ last.op = "search"
    /\ ~last.out.raised
    /\ last.who = "basic"
    /\ LET once == Select(last.query,
                          {i \in 1..Len(last.query) :
                              \A j \in 1..(i - 1) : last.query[j] # last.query[i]})
           again == search(Memory, once, last.top_k).results
       IN  /\ once # last.query
           /\ Len(again) = Len(last.out.results)
           /\ Len(again) >= 2
           /\ [i \in 1..Len(again) |-> again[i].chunk.id]
                  # [i \in 1..Len(again) |-> last.out.results[i].chunk.id]

\* C29: what search has returned on the index in memory is what
\* document_retrieval returns on its snapshot for the same query and top_k,
\* and the other way round: the same passage ids with the same scores in the
\* same order.
RetrieversAgree ==
    (last.op = "search" /\ ~last.out.raised) =>
        LET m == IF last.who = "basic" THEN ref_kb ELSE Memory
            key == IF last.who = "basic" THEN "str" ELSE "int"
        IN  \A order \in Orders(m) :
                LET other == RetrieveIn(m, last.query, last.top_k, key, order)
                IN  /\ ~other.raised
                    /\ [i \in 1..Len(other.results) |->
                           <<other.results[i].chunk.id, other.results[i].score>>]
                          = [i \in 1..Len(last.out.results) |->
                               <<last.out.results[i].chunk.id, last.out.results[i].score>>]

\* C30: after reranking_and_relevance the list of the caller is the list
\* returned, with the blended scores in the reranked order; a second call on
\* that list leaves it equal to what is returned again and gives every record
\* another score than the first call left.
RerankInPlace ==
    /\ (last.who = "ref" /\ last.op = "rerank") =>
           /\ last.out.docs = last.out.results
           /\ last.out.docs = reranking_and_relevance(last.query, last.out.base)
    /\ (last.who = "ref" /\ last.op = "rerank2") =>
           /\ last.out.docs = last.out.results
           /\ Len(last.out.docs) = Len(last.out.once)
           /\ \A i \in 1..Len(last.out.docs) :
                  \A j \in 1..Len(last.out.once) :
                      last.out.docs[i].chunk.id = last.out.once[j].chunk.id =>
                          last.out.docs[i].score # last.out.once[j].score

\* Two records were reranked twice; the first call changed their order and
\* their scores, the second call changed the scores again.
RerankInPlaceWitness ==
    /\ last.who = "ref" /\ last.op = "rerank2"
    /\ Len(last.out.base) = 2
    /\ last.out.once[1].chunk.id = last.out.base[2].chunk.id
    /\ last.out.once[1].score # last.out.base[2].score
    /\ last.out.docs[1].score # last.out.once[1].score

====
